---------------------------- MODULE Spec2Model ----------------------------
(***************************************************************************)
(* Alert delivery pipeline of stoxxo_monitor (src/core/telegram_client.py).*)
(*                                                                         *)
(*   TelegramClientSync.send_message -> BurstBuffer -> queue.Queue         *)
(*                                   -> SenderThread -> Telegram           *)
(*                                                                         *)
(* and of its producers: AlertChecker with its cooldown registry, and      *)
(* GridLogMonitor, the tailer of GridLog.csv, both driven by AlertService. *)
(*                                                                         *)
(* Texts are sequences of symbols.  A symbol is one character ("\n", " ",  *)
(* "@", ":", "|", a digit, ...) or a word of ordinary characters           *)
(* ("ATTENTION", "Portfolio", ...); a word behaves as one ordinary         *)
(* character for strip(), splitlines(), startswith() and the regular       *)
(* expression of _fingerprint.                                             *)
(*                                                                         *)
(* Time is counted in tenths of a second (the resolution of                *)
(* SILENCE_SECONDS = 0.2).  Durations of the source given in seconds are   *)
(* written in tenths here; Secs(n) converts whole seconds.                 *)
(***************************************************************************)
EXTENDS Integers, Sequences, FiniteSets, TLC

---------------------------------------------------------------------------
(* Python str helpers, on symbol sequences                                 *)

NL == "\n"

Min(a, b) == IF a <= b THEN a ELSE b

IsSpace(c) == c \in {" ", "\n", "\t"}

IsDigitColon(c) == c \in {"0", "1", "2", "3", "4", "5", "6", "7", "8", "9", ":"}

Secs(n) == n * 10

DigitOf(d) == <<"0", "1", "2", "3", "4", "5", "6", "7", "8", "9">>[d + 1]

RECURSIVE Digits(_)
\* str(n) for n >= 0
Digits(n) == IF n < 10 THEN <<DigitOf(n)>>
             ELSE Digits(n \div 10) \o <<DigitOf(n % 10)>>

TwoDigits(n) == <<DigitOf((n \div 10) % 10), DigitOf(n % 10)>>

\* datetime.fromtimestamp(ts).strftime("%H:%M:%S"); the clock starts at 00:00:00
FormatTime(ts) ==
    LET s == ts \div 10
    IN  TwoDigits((s \div 3600) % 24) \o <<":">> \o TwoDigits((s \div 60) % 60)
          \o <<":">> \o TwoDigits(s % 60)

RECURSIVE LStrip(_)
LStrip(s) == IF s # <<>> /\ IsSpace(Head(s)) THEN LStrip(Tail(s)) ELSE s

RECURSIVE RStrip(_)
RStrip(s) == IF s # <<>> /\ IsSpace(s[Len(s)])
             THEN RStrip(SubSeq(s, 1, Len(s) - 1)) ELSE s

\* str.strip()
Strip(s) == RStrip(LStrip(s))

RECURSIVE SplitFrom(_, _, _, _)
SplitFrom(s, i, cur, acc) ==
    IF i > Len(s) THEN (IF cur = <<>> THEN acc ELSE Append(acc, cur))
    ELSE IF s[i] = NL THEN SplitFrom(s, i + 1, <<>>, Append(acc, cur))
    ELSE SplitFrom(s, i + 1, Append(cur, s[i]), acc)

\* str.splitlines(): no empty last line after a final newline
SplitLines(s) == SplitFrom(s, 1, <<>>, <<>>)

RECURSIVE JoinWith(_, _)
\* sep.join(parts)
JoinWith(sep, parts) ==
    IF parts = <<>> THEN <<>>
    ELSE IF Len(parts) = 1 THEN parts[1]
    ELSE parts[1] \o sep \o JoinWith(sep, Tail(parts))

StartsWith(s, p) == Len(s) >= Len(p) /\ SubSeq(s, 1, Len(p)) = p

RECURSIVE SkipSpaces(_, _)
\* first index >= i of s that holds no whitespace (Len(s)+1 if none)
SkipSpaces(s, i) ==
    IF i <= Len(s) /\ IsSpace(s[i]) THEN SkipSpaces(s, i + 1) ELSE i

RECURSIVE SkipDigitColons(_, _)
SkipDigitColons(s, i) ==
    IF i <= Len(s) /\ IsDigitColon(s[i]) THEN SkipDigitColons(s, i + 1) ELSE i

\* Length of the match of \s*@\s*[\d:]+ starting at index i of s, 0 if none.
\* The classes are disjoint, so the greedy match is the only candidate.
TimestampMatch(s, i) ==
    LET a == SkipSpaces(s, i)
    IN  IF a > Len(s) \/ s[a] # "@" THEN 0
        ELSE LET b == SkipSpaces(s, a + 1)
                 c == SkipDigitColons(s, b)
             IN  IF c > b THEN c - i ELSE 0

RECURSIVE SubTimestampFrom(_, _)
SubTimestampFrom(s, i) ==
    IF i > Len(s) THEN <<>>
    ELSE LET n == TimestampMatch(s, i)
         IN  IF n > 0 THEN SubTimestampFrom(s, i + n)
             ELSE <<s[i]>> \o SubTimestampFrom(s, i + 1)

\* re.sub(r'\s*@\s*[\d:]+', '', s)
SubTimestamp(s) == SubTimestampFrom(s, 1)

SelectSeqNonBlank(lines) == SelectSeq(lines, LAMBDA l : Strip(l) # <<>>)

\* [l.strip() for l in message.splitlines() if l.strip()]
StrippedLines(message) ==
    LET ls == SelectSeqNonBlank(SplitLines(message))
    IN  [k \in 1..Len(ls) |-> Strip(ls[k])]

---------------------------------------------------------------------------
(* BurstBuffer: pure helpers                                               *)

FP_SEP == <<" ", "|", " ">>

\* Mutation of _fingerprint: the portfolio line takes part in the key.
FingerprintWithPortfolio(message) ==
    LET lines  == StrippedLines(message)
        header == IF lines # <<>> THEN Strip(SubTimestamp(lines[1])) ELSE <<>>
        user   == IF Len(lines) > 1 THEN Strip(lines[2]) ELSE <<>>
        third  == IF Len(lines) > 2 THEN Strip(lines[3]) ELSE <<>>
    IN  header \o FP_SEP \o user \o FP_SEP \o third

\* Mutation of _fingerprint: the header keeps its timestamp.
FingerprintKeepTimestamp(message) ==
    LET lines  == StrippedLines(message)
        header == IF lines # <<>> THEN Strip(lines[1]) ELSE <<>>
        user   == IF Len(lines) > 1 THEN Strip(lines[2]) ELSE <<>>
    IN  header \o FP_SEP \o user

\* BurstBuffer._fingerprint
Fingerprint(message) ==
    LET lines  == StrippedLines(message)
        header == IF lines # <<>> THEN Strip(SubTimestamp(lines[1])) ELSE <<>>
        user   == IF Len(lines) > 1 THEN Strip(lines[2]) ELSE <<>>
    IN  header \o FP_SEP \o user

RECURSIVE FieldFrom(_, _, _)
FieldFrom(lines, k, prefix) ==
    IF k > Len(lines) THEN <<>>
    ELSE LET s == Strip(lines[k])
         IN  IF StartsWith(s, prefix)
             THEN Strip(SubSeq(s, Len(prefix) + 1, Len(s)))
             ELSE FieldFrom(lines, k + 1, prefix)

\* BurstBuffer._extract_field
ExtractField(message, prefix) == FieldFrom(SplitLines(message), 1, prefix)

BULLET == <<" ", " ", "*", " ">>
DASH   == <<" ", " ", "-", " ", " ">>

\* BurstBuffer._build_bullet
BuildBullet(message) ==
    LET portfolio == ExtractField(message, <<"Portfolio", ":">>)
        issue     == ExtractField(message, <<"Issue", ":">>)
        metric    == ExtractField(message, <<"Metric", ":">>)
        threshold == ExtractField(message, <<"Threshold", ":">>)
        actual    == ExtractField(message, <<"Actual", ":">>)
        indent    == <<NL, " ", " ", " ", " ", " ", " ">>
        lines     == StrippedLines(message)
    IN  IF issue # <<>>
        THEN (IF portfolio # <<>> THEN BULLET \o portfolio \o DASH \o issue
              ELSE BULLET \o issue)
        ELSE IF metric # <<>>
        THEN (IF threshold # <<>> /\ actual # <<>>
              THEN BULLET \o metric \o indent \o <<"Threshold", ":", " ">> \o threshold
                     \o <<" ", " ", "|", " ", " ", "Actual", ":", " ">> \o actual
              ELSE IF threshold # <<>>
              THEN BULLET \o metric \o indent \o <<"Threshold", ":", " ">> \o threshold
              ELSE BULLET \o metric)
        ELSE IF lines # <<>> THEN BULLET \o lines[Len(lines)]
        ELSE BULLET \o <<"(", "no", " ", "detail", ")">>

DIVIDER == <<"-----">>

\* Mutation of _build_summary: the last bullet is left out.
BuildSummaryDropLast(entries, count) ==
    LET t_lines     == SplitLines(entries[1][2])
        header_base == IF t_lines # <<>> THEN Strip(SubTimestamp(t_lines[1])) ELSE <<>>
        first_time  == FormatTime(entries[1][1])
        header      == header_base \o <<" ", "-", " ">> \o Digits(count)
                         \o <<" ", "alerts", " ", "@", " ">> \o first_time
        user_line   == IF Len(t_lines) > 1 THEN Strip(t_lines[2]) ELSE <<>>
        bullets     == [k \in 1..(Len(entries) - 1) |-> BuildBullet(entries[k][2])]
    IN  JoinWith(<<NL>>, <<header, user_line, DIVIDER>> \o bullets)

\* BurstBuffer._build_summary; an entry is <<timestamp, message>>
BuildSummary(entries, count) ==
    LET first_ts    == entries[1][1]
        last_ts     == entries[Len(entries)][1]
        template    == entries[1][2]
        t_lines     == SplitLines(template)
        header_base == IF t_lines # <<>> THEN Strip(SubTimestamp(t_lines[1])) ELSE <<>>
        first_time  == FormatTime(first_ts)
        last_time   == FormatTime(last_ts)
        time_range  == IF first_time = last_time THEN first_time
                       ELSE first_time \o <<"-">> \o last_time
        header      == header_base \o <<" ", "-", " ">> \o Digits(count)
                         \o <<" ", "alerts", " ", "@", " ">> \o time_range
        user_line   == IF Len(t_lines) > 1 THEN Strip(t_lines[2]) ELSE <<>>
        bullets     == [k \in 1..Len(entries) |-> BuildBullet(entries[k][2])]
    IN  JoinWith(<<NL>>, <<header, user_line, DIVIDER>> \o bullets)

---------------------------------------------------------------------------
(* Message producers                                                       *)

\* GridLogMonitor.format_alert_message, as a list of lines.  p is a record
\* [type, time, user, strategy, portfolio, issue]; an empty field is <<>>.
GridLines(p) ==
    <<p.type \o <<" ", "@", " ">> \o p.time>>
      \o (IF p.user # <<>> THEN <<<<"User", ":", " ">> \o p.user>> ELSE <<>>)
      \o (IF p.strategy # <<>> THEN <<<<"Strategy", ":", " ">> \o p.strategy>> ELSE <<>>)
      \o (IF p.portfolio # <<>> THEN <<<<"Portfolio", ":", " ">> \o p.portfolio>> ELSE <<>>)
      \o <<<<"Issue", ":", " ">> \o p.issue>>

\* AlertEvent.format_message, as a list of lines.  p is a record
\* [category, alias, metric, threshold, actual].
PositionLines(p) ==
    << p.category,
       <<"User", " ", "Alias", ":", " ">> \o p.alias,
       <<"Metric", ":", " ">> \o p.metric,
       <<"Threshold", ":", " ">> \o p.threshold,
       <<"Actual", ":", " ">> \o p.actual >>

IsGrid(p) == "type" \in DOMAIN p

MessageLines(p) == IF IsGrid(p) THEN GridLines(p) ELSE PositionLines(p)

\* "\n".join(lines)
MessageText(p) == JoinWith(<<NL>>, MessageLines(p))

Grid(type, time, user, strategy, portfolio, issue) ==
    [type |-> type, time |-> time, user |-> user, strategy |-> strategy,
     portfolio |-> portfolio, issue |-> issue]

Position(category, alias, metric, threshold, actual) ==
    [category |-> category, alias |-> alias, metric |-> metric,
     threshold |-> threshold, actual |-> actual]

Time1 == <<"1", "3", ":", "1", "2">>
Time2 == <<"1", "3", ":", "1", "4">>

\* The alerts send_message is called with: two ATTENTION alerts of one user on
\* two portfolios, and a margin alert of another user.
AlertParams ==
    { Grid(<<"ATTENTION">>, Time1, <<"FZ1">>, <<>>, <<"P1">>, <<"Rejected">>),
      Grid(<<"ATTENTION">>, Time2, <<"FZ1">>, <<>>, <<"P2">>, <<"Stopped">>),
      Position(<<"MARGIN", " ", "ALERT">>, <<"Sim1">>, <<"Margin">>, <<"8", "0">>, <<"9", "1">>) }

Alerts == { MessageText(p) : p \in AlertParams }

---------------------------------------------------------------------------
(* Constants of the source and bounds of the model                         *)

SILENCE_SECONDS   == 2      \* 0.2 s
MAX_WAIT_SECONDS  == 20     \* 2.0 s
RATE_LIMIT_WINDOW == 58     \* seconds
RATE_LIMIT_MAX    == 18
COMBINE_THRESHOLD == 5

MaxBurstTime == 22   \* the clock stops here in SpecBurst
MaxBuf       == 20   \* messages the buffer holds at most in SpecBurst
MaxVaried    == 2    \* adds of an epoch that choose their alert and their time;
                     \* later ones repeat the last alert, one per tick
MaxTime      == 1160 \* the clock stops here in Spec
MaxClientTime == 72  \* the clock stops here in SpecClient
MaxSends     == 1    \* send_message calls in SpecClient
MaxEnq       == 23   \* messages put on the queue by send_urgent
MaxQueue     == 5    \* queue depth at which send_urgent callers stop
MaxOutages   == 1    \* provider outages
MaxApiEnq    == 3    \* SpecApi: messages put on the queue
MaxApiTime   == 25   \* SpecApi: last clock value
MaxCancelTime == 5   \* SpecCancel: last clock value
MaxLiveEnq   == 23   \* SpecLive: messages put on the queue
MaxBatch     == 2    \* alerts in one check_all_alerts call
MaxCalls     == 4    \* check_all_alerts calls
MaxFailEnq   == 4    \* SpecFail: messages put on the queue
MaxCycles    == 4    \* SpecService: evaluation cycles
MaxSvcTime   == 6100 \* SpecService: last clock value (the clock starts at 3000)
MaxCkTime    == 7500 \* SpecCooldown: last clock value (the clock starts at 3000)
MaxMetric    == 3    \* largest size of a metric the rules read
MaxStatusEnq == 3    \* SpecStatus: messages enqueued
MaxStatusTime == 1162 \* SpecStatus: last clock value, two windows on
MaxPipeSends == 3    \* SpecPipe: send_message calls
MaxEntries   == 3    \* SpecGrid: entries the log writer writes
MaxDays      == 2    \* SpecGrid: days

\* clock step while no timer is armed: one rate-limit window
Stride == Secs(RATE_LIMIT_WINDOW)

VARIABLES
    now,            \* time.time()
    groups,         \* BurstBuffer._groups: <<[fp, entries]>> in key insertion order
    silence_timer,  \* BurstBuffer._silence_timer: a timer id, 0 for None
    max_timer,      \* BurstBuffer._max_timer: a timer id, 0 for None
    timers,         \* live threading.Timer threads: {[id, due, fired]}
    on_flush,       \* BurstBuffer._on_flush: "none", "record" or "enqueue"
    flushed,        \* messages_to_send held by a recording callback
    burst,          \* history: the current run of same-fingerprint adds
    queue,          \* SenderThread._queue
    sent_ts,        \* SenderThread._sent_ts
    pc,             \* where the sender thread is
    inflight,       \* the delivery attempt in progress
    wake,           \* end of the sender's rate-limit sleep
    provider,       \* "up" or "down", and the outages so far
    stats,          \* history: messages enqueued, delivered, dropped
    ret,            \* last facade call and what it returned
    fp_in,          \* SpecFp: the two alerts compared
    fp_out,         \* SpecFp: their fingerprints
    call,           \* the facade call in progress on the calling thread
    stop_event,     \* SenderThread._stop_event
    final,          \* the sender has left its loop for the final drain
    cooldowns,      \* AlertChecker._cooldowns: <<user_alias, alert_type>> -> time
    emitted,        \* what the last check_all_alerts call returned
    rule_in,        \* SpecRules: the summaries and threshold maps evaluated
    rule_out,       \* SpecRules: the alerts that evaluation produced
    today,          \* the date: datetime.now().strftime("%d-%b-%Y"), as a day number
    files,          \* the GridLog.csv files that exist, by day: the lines written
    writer,         \* the log writer: the entry it is writing, the entries so far
    file_handle,    \* GridLogMonitor._file_handle
    current_file_path, \* GridLogMonitor._current_file_path: a day, 0 for None
    last_position,  \* GridLogMonitor._last_position, in lines
    grid_alerts,    \* _check_grid_log_alerts: the records of `alerts` still to be sent
    examined,       \* history: the lines readline has returned, as <<day, index>>
    returned        \* history: the records check_for_new_entries has returned

bufVars == <<groups, silence_timer, max_timer, timers, on_flush, flushed, burst>>
sndVars == <<queue, sent_ts, pc, inflight, wake, provider, stats>>
fpVars  == <<fp_in, fp_out>>
ctlVars == <<call, stop_event, final>>
ckVars  == <<cooldowns, emitted, rule_in, rule_out>>
glVars  == <<today, files, writer, file_handle, current_file_path, last_position,
             grid_alerts, examined, returned>>
vars    == <<now, bufVars, sndVars, ret, fpVars, ctlVars, ckVars, glVars>>

NoAttempt == [kind |-> "none", text |-> <<>>, n |-> 0]
NoBurst   == [fp |-> <<>>, msg |-> <<>>, first |-> 0, last |-> 0, size |-> 0,
              pending |-> 0, outs |-> 0, fresh |-> FALSE]
NoCall    == [op |-> "none", value |-> FALSE]

\* The state of the parts a specification leaves alone.
NoFacade  == call = "none" /\ stop_event = FALSE /\ final = FALSE
NoChecker == cooldowns = <<>> /\ emitted = <<>> /\ rule_in = <<>> /\ rule_out = <<>>
NoHandle  == [path |-> 0, pos |-> 0, open |-> FALSE]
NoWriter  == [pc |-> "idle", entries |-> 0]
NoGridLog ==
    /\ today = 1
    /\ files = [d \in 1..MaxDays |-> [exists |-> FALSE, lines |-> <<>>]]
    /\ writer = NoWriter
    /\ file_handle = NoHandle
    /\ current_file_path = 0
    /\ last_position = 0
    /\ grid_alerts = <<>>
    /\ examined = <<>>
    /\ returned = <<>>

---------------------------------------------------------------------------
(* BurstBuffer                                                             *)

HasGroup(g, fp) == \E k \in 1..Len(g) : g[k].fp = fp

\* self._groups[fingerprint].append((time.time(), message))
AppendEntry(g, fp, entry) ==
    IF HasGroup(g, fp)
    THEN [k \in 1..Len(g) |->
            IF g[k].fp = fp THEN [g[k] EXCEPT !.entries = Append(@, entry)] ELSE g[k]]
    ELSE Append(g, [fp |-> fp, entries |-> <<entry>>])

RECURSIVE BufferSize(_)
BufferSize(g) == IF g = <<>> THEN 0 ELSE Len(g[1].entries) + BufferSize(Tail(g))

AllEntries(g) == UNION { { g[k].entries[j] : j \in 1..Len(g[k].entries) } : k \in 1..Len(g) }

\* arrival time of the first and of the latest message of the epoch
EpochFirst(g) == CHOOSE t \in { e[1] : e \in AllEntries(g) } :
                    \A e \in AllEntries(g) : t <= e[1]
EpochLast(g)  == CHOOSE t \in { e[1] : e \in AllEntries(g) } :
                    \A e \in AllEntries(g) : t >= e[1]

FreshId(T) == CHOOSE i \in 1..(Cardinality(T) + 1) :
                 /\ \A t \in T : t.id # i
                 /\ \A j \in 1..(i - 1) : \E t \in T : t.id = j

\* Mutation of Timer.cancel: nothing is cancelled.
CancelNothing(T, id) == T

\* threading.Timer.cancel(): sets the finished event, which stops a timer that
\* still waits; a timer that has passed its finished check calls _flush anyway.
CancelTimer(T, id) == { t \in T : ~(t.id = id /\ ~t.fired) }

\* Mutation of add: the max-wait timer is never started.
MaxTimerNever(handle) == FALSE

\* if self._max_timer is None
MaxTimerUnset(handle) == handle = 0

\* Mutation of add: the silence timer waits MAX_WAIT_SECONDS.
SilenceDueLate(t) == t + MAX_WAIT_SECONDS

\* threading.Timer(self.SILENCE_SECONDS, self._flush)
SilenceDue(t) == t + SILENCE_SECONDS

\* Mutation of add: the max-wait timer waits one silence period longer.
MaxDueLate(t) == t + MAX_WAIT_SECONDS + SILENCE_SECONDS

\* threading.Timer(self.MAX_WAIT_SECONDS, self._flush)
MaxDue(t) == t + MAX_WAIT_SECONDS

\* BurstBuffer.add
BufferAdd(message) ==
    LET fp   == Fingerprint(message)
        T1   == IF silence_timer # 0 THEN CancelTimer(timers, silence_timer) ELSE timers
        sid  == FreshId(T1)
        T2   == T1 \cup {[id |-> sid, due |-> SilenceDue(now), fired |-> FALSE,
                         kind |-> "silence"]}
        mid  == FreshId(T2)
        cont == /\ burst.size > 0
                /\ burst.fp = fp
                /\ now - burst.last < SILENCE_SECONDS
                /\ now - burst.first < MAX_WAIT_SECONDS
    IN  /\ groups' = AppendEntry(groups, fp, <<now, message>>)
        /\ silence_timer' = sid
        /\ IF MaxTimerUnset(max_timer)
           THEN /\ max_timer' = mid
                /\ timers' = T2 \cup {[id |-> mid, due |-> MaxDue(now),
                                       fired |-> FALSE, kind |-> "max"]}
           ELSE /\ max_timer' = max_timer
                /\ timers' = T2
        /\ burst' = IF cont
                    THEN [burst EXCEPT !.msg = message, !.last = now,
                                       !.size = @ + 1, !.pending = @ + 1]
                    ELSE [fp |-> fp, msg |-> message, first |-> now, last |-> now,
                          size |-> 1, pending |-> 1, outs |-> 0,
                          fresh |-> groups = <<>>]
        /\ UNCHANGED <<on_flush, flushed>>

\* Mutation of _flush: a group of two is passed as its first message.
FlushOutputsPairAsOne(g) ==
    [k \in 1..Len(g) |->
        IF Len(g[k].entries) <= 2 THEN g[k].entries[1][2]
        ELSE BuildSummary(g[k].entries, Len(g[k].entries))]

\* _flush, lines 205-211: messages_to_send
FlushOutputs(g) ==
    [k \in 1..Len(g) |->
        IF Len(g[k].entries) = 1 THEN g[k].entries[1][2]
        ELSE BuildSummary(g[k].entries, Len(g[k].entries))]

\* A timer's wait has ended and its finished event is not set: it goes on to
\* call _flush.
TimerExpire(t) ==
    /\ t \in timers
    /\ ~t.fired
    /\ t.due <= now
    /\ timers' = (timers \ {t}) \cup {[t EXCEPT !.fired = TRUE]}
    /\ UNCHANGED <<now, groups, silence_timer, max_timer, on_flush, flushed, burst,
                   sndVars, ret, fpVars, ctlVars, ckVars, glVars>>

\* Mutation of _flush: only the oldest group is taken; the others stay in
\* _groups while both timers are cancelled.
FlushFirstGroup(t) ==
    /\ t \in timers
    /\ t.fired
    /\ IF groups = <<>>
       THEN /\ timers' = timers \ {t}
            /\ UNCHANGED <<groups, silence_timer, max_timer, flushed, burst, queue, stats>>
       ELSE LET outs == FlushOutputs(<<groups[1]>>)
                T1   == IF silence_timer # 0
                        THEN CancelTimer(timers \ {t}, silence_timer) ELSE timers \ {t}
                T2   == IF max_timer # 0 THEN CancelTimer(T1, max_timer) ELSE T1
            IN  /\ groups' = Tail(groups)
                /\ silence_timer' = 0
                /\ max_timer' = 0
                /\ timers' = T2
                /\ burst' = IF burst.pending > 0
                            THEN [burst EXCEPT !.pending = 0, !.outs = @ + 1]
                            ELSE burst
                /\ flushed' = IF on_flush = "record" THEN outs ELSE flushed
                /\ queue' = IF on_flush = "enqueue" THEN queue \o outs ELSE queue
                /\ stats' = IF on_flush = "enqueue"
                            THEN [stats EXCEPT !.enqueued = @ + Len(outs)] ELSE stats
    /\ UNCHANGED <<now, on_flush, sent_ts, pc, inflight, wake, provider, ret, fpVars, ctlVars, ckVars, glVars>>

\* Mutation of _flush: the guard against an empty buffer is missing.
FlushUnguarded(t) ==
    /\ t \in timers
    /\ t.fired
    /\ LET outs == FlushOutputs(groups)
           T1   == IF silence_timer # 0
                   THEN CancelTimer(timers \ {t}, silence_timer) ELSE timers \ {t}
           T2   == IF max_timer # 0 THEN CancelTimer(T1, max_timer) ELSE T1
       IN  /\ groups' = <<>>
           /\ silence_timer' = 0
           /\ max_timer' = 0
           /\ timers' = T2
           /\ burst' = IF burst.pending > 0
                       THEN [burst EXCEPT !.pending = 0, !.outs = @ + 1]
                       ELSE burst
           /\ flushed' = IF on_flush = "record" THEN outs ELSE flushed
           /\ queue' = IF on_flush = "enqueue" THEN queue \o outs ELSE queue
           /\ stats' = IF on_flush = "enqueue"
                       THEN [stats EXCEPT !.enqueued = @ + Len(outs)] ELSE stats
    /\ UNCHANGED <<now, on_flush, sent_ts, pc, inflight, wake, provider, ret, fpVars, ctlVars, ckVars, glVars>>

\* BurstBuffer._flush, run by timer thread t; with TelegramClientSync's callback
\* (_on_buffer_flush) every output is enqueued on the sender.
Flush(t) ==
    /\ t \in timers
    /\ t.fired
    /\ IF groups = <<>>
       THEN /\ timers' = timers \ {t}
            /\ UNCHANGED <<groups, silence_timer, max_timer, flushed, burst, queue, stats>>
       ELSE LET outs == FlushOutputs(groups)
                T1   == IF silence_timer # 0
                        THEN CancelTimer(timers \ {t}, silence_timer) ELSE timers \ {t}
                T2   == IF max_timer # 0 THEN CancelTimer(T1, max_timer) ELSE T1
            IN  /\ groups' = <<>>
                /\ silence_timer' = 0
                /\ max_timer' = 0
                /\ timers' = T2
                /\ burst' = IF burst.pending > 0
                            THEN [burst EXCEPT !.pending = 0, !.outs = @ + 1]
                            ELSE burst
                /\ flushed' = IF on_flush = "record" THEN outs ELSE flushed
                /\ queue' = IF on_flush = "enqueue" THEN queue \o outs ELSE queue
                /\ stats' = IF on_flush = "enqueue"
                            THEN [stats EXCEPT !.enqueued = @ + Len(outs)] ELSE stats
    /\ UNCHANGED <<now, on_flush, sent_ts, pc, inflight, wake, provider, ret, fpVars, ctlVars, ckVars, glVars>>

\* BurstBuffer.cancel: both handles are cancelled and cleared under the lock;
\* _groups is not touched.
Cancel ==
    /\ timers' = CancelTimer(CancelTimer(timers, silence_timer), max_timer)
    /\ silence_timer' = 0
    /\ max_timer' = 0
    /\ UNCHANGED <<now, groups, on_flush, flushed, burst, sndVars, ret, fpVars, ctlVars, ckVars, glVars>>

\* The recording callback's batch is taken by its reader.
Collect ==
    /\ flushed # <<>>
    /\ flushed' = <<>>
    /\ UNCHANGED <<now, groups, silence_timer, max_timer, timers, on_flush, burst,
                   sndVars, ret, fpVars, ctlVars, ckVars, glVars>>

\* The clock advances by d; a timer's wait ends on time and a timer thread that
\* is about to flush does so before the clock moves.
Tick(d) ==
    /\ d > 0
    /\ \A t \in timers : ~t.fired /\ t.due >= now + d
    /\ flushed = <<>>
    /\ now' = now + d
    /\ UNCHANGED <<bufVars, sndVars, ret, fpVars, ctlVars, ckVars, glVars>>

---------------------------------------------------------------------------
(* SenderThread                                                            *)

\* Mutation of _clean_old_timestamps: no timestamp is ever dropped.
CleanOldNothing(ts, t) == ts

RECURSIVE CleanOld(_, _)
\* SenderThread._clean_old_timestamps at time t
CleanOld(ts, t) ==
    IF ts # <<>> /\ Head(ts) < t - Secs(RATE_LIMIT_WINDOW)
    THEN CleanOld(Tail(ts), t) ELSE ts

\* Mutation of _drain_once: one more send is let through before the limit holds.
AtLimitOffByOne(ts) == Len(ts) > RATE_LIMIT_MAX

\* if len(self._sent_ts) >= self.RATE_LIMIT_MAX
AtLimit(ts) == Len(ts) >= RATE_LIMIT_MAX

\* Mutation of _drain_once: the backlog is combined as soon as one message waits.
BackingUpAtOne(q) == Len(q) >= 1

\* if self._queue.qsize() >= self.COMBINE_THRESHOLD
BackingUp(q) == Len(q) >= COMBINE_THRESHOLD

RULE == <<"------">>

\* f"[{i+1}] {m}" for the message at index i (from 0)
Numbered(i, m) == <<"[">> \o Digits(i + 1) \o <<"]", " ">> \o m

\* Mutation of _send_combined_backlog: the newest message is left out.
CombinedTextDropNewest(messages) ==
    IF Len(messages) = 1 THEN messages[1]
    ELSE <<"BACKLOG", " ", "COMBINED", " ", "(">> \o Digits(Len(messages))
           \o <<" ", "alerts", ")", NL>> \o RULE \o <<NL, NL>>
           \o JoinWith(<<NL, NL>>,
                       [k \in 1..(Len(messages) - 1) |-> Numbered(k - 1, messages[k])])

\* _send_combined_backlog, lines 361-365
CombinedText(messages) ==
    IF Len(messages) = 1 THEN messages[1]
    ELSE <<"BACKLOG", " ", "COMBINED", " ", "(">> \o Digits(Len(messages))
           \o <<" ", "alerts", ")", NL>> \o RULE \o <<NL, NL>>
           \o JoinWith(<<NL, NL>>,
                       [k \in 1..Len(messages) |-> Numbered(k - 1, messages[k])])

\* Mutation of _drain_once: a message whose delivery failed is put back.
AfterFailureRequeue(q, attempt) == Append(q, attempt.text)

\* _drain_once, lines 347-348: a failed delivery is logged, the queue is left alone
AfterFailure(q, attempt) == q

\* SenderThread.enqueue
Enqueue(message) ==
    /\ queue' = Append(queue, message)
    /\ stats' = [stats EXCEPT !.enqueued = @ + 1]

\* Mutation of run(): the final drain is followed by the loop again.
ReturnedToLoop == "idle"

\* Where the sender goes when _drain_once returns: back to run()'s loop, or,
\* after the final drain, to the end of run().
Returned == IF final THEN "done" ELSE "idle"

\* run(): the loop test finds the stop flag clear and calls _drain_once (a call
\* on an empty queue returns at once and is not modelled as a step)
Drain ==
    /\ pc = "idle"
    /\ ~stop_event
    /\ queue # <<>>
    /\ pc' = "loop"
    /\ UNCHANGED <<now, bufVars, queue, sent_ts, inflight, wake, provider, stats,
                   ret, fpVars, ctlVars, ckVars, glVars>>

\* _drain_once, lines 321-322: the loop test and _clean_old_timestamps
LoopHead ==
    /\ pc = "loop"
    /\ IF queue = <<>>
       THEN /\ pc' = Returned
            /\ UNCHANGED sent_ts
       ELSE /\ sent_ts' = CleanOld(sent_ts, now)
            /\ pc' = "check"
    /\ UNCHANGED <<now, bufVars, queue, inflight, wake, provider, stats, ret, fpVars, ctlVars, ckVars, glVars>>

\* _drain_once, lines 324-338: the rate-limit decision
Check ==
    /\ pc = "check"
    /\ IF AtLimit(sent_ts)
       THEN LET wait_secs == (sent_ts[1] + Secs(RATE_LIMIT_WINDOW)) - now
            IN  IF wait_secs > 0
                THEN IF BackingUp(queue)
                     THEN /\ pc' = "combine"
                          /\ UNCHANGED wake
                     ELSE /\ pc' = "sleep"
                          /\ wake' = now + Min(wait_secs + 1, Secs(5))
                ELSE /\ pc' = "loop"
                     /\ UNCHANGED wake
       ELSE /\ pc' = "get"
            /\ UNCHANGED wake
    /\ UNCHANGED <<now, bufVars, queue, sent_ts, inflight, provider, stats, ret, fpVars, ctlVars, ckVars, glVars>>

\* Mutation of _drain_once: the newest message is taken first.
GetNewest ==
    /\ pc = "get"
    /\ IF queue = <<>>
       THEN /\ pc' = Returned
            /\ UNCHANGED <<queue, inflight>>
       ELSE /\ inflight' = [kind |-> "single", text |-> queue[Len(queue)], n |-> 1]
            /\ queue' = SubSeq(queue, 1, Len(queue) - 1)
            /\ pc' = "send"
    /\ UNCHANGED <<now, bufVars, sent_ts, wake, provider, stats, ret, fpVars, ctlVars, ckVars, glVars>>

\* _drain_once, lines 340-345: get_nowait and the start of _send_sync
Get ==
    /\ pc = "get"
    /\ IF queue = <<>>
       THEN /\ pc' = Returned
            /\ UNCHANGED <<queue, inflight>>
       ELSE /\ inflight' = [kind |-> "single", text |-> Head(queue), n |-> 1]
            /\ queue' = Tail(queue)
            /\ pc' = "send"
    /\ UNCHANGED <<now, bufVars, sent_ts, wake, provider, stats, ret, fpVars, ctlVars, ckVars, glVars>>

\* _send_combined_backlog, lines 351-368: the queue is emptied into one message
Combine ==
    /\ pc = "combine"
    /\ IF queue = <<>>
       THEN /\ pc' = Returned
            /\ UNCHANGED <<queue, inflight>>
       ELSE /\ inflight' = [kind |-> "combined", text |-> CombinedText(queue),
                            n |-> Len(queue)]
            /\ queue' = <<>>
            /\ pc' = "send"
    /\ UNCHANGED <<now, bufVars, sent_ts, wake, provider, stats, ret, fpVars, ctlVars, ckVars, glVars>>

\* Mutation of _send_sync: a failed delivery raises and ends the thread.
SendDoneRaises ==
    /\ pc = "send"
    /\ IF provider.state = "up"
       THEN /\ sent_ts' = Append(sent_ts, now)
            /\ stats' = [stats EXCEPT !.delivered = @ + inflight.n]
            /\ pc' = IF inflight.kind = "single" THEN "loop" ELSE Returned
       ELSE /\ stats' = [stats EXCEPT !.dropped = @ + inflight.n]
            /\ pc' = "done"
            /\ UNCHANGED sent_ts
    /\ inflight' = NoAttempt
    /\ UNCHANGED <<now, bufVars, queue, wake, provider, ret, fpVars, ctlVars, ckVars, glVars>>

\* Mutation of _drain_once and _send_combined_backlog: a failed attempt is
\* counted against the quota too.
SendDoneStampsFailure ==
    /\ pc = "send"
    /\ sent_ts' = Append(sent_ts, now)
    /\ IF provider.state = "up"
       THEN /\ stats' = [stats EXCEPT !.delivered = @ + inflight.n]
            /\ UNCHANGED queue
       ELSE /\ stats' = [stats EXCEPT !.dropped = @ + inflight.n]
            /\ queue' = AfterFailure(queue, inflight)
    /\ inflight' = NoAttempt
    /\ pc' = IF inflight.kind = "single" THEN "loop" ELSE Returned
    /\ UNCHANGED <<now, bufVars, wake, provider, ret, fpVars, ctlVars, ckVars, glVars>>

\* Mutation of _send_combined_backlog: a combined message is counted once for
\* every message it holds.
SendDoneStampsEach ==
    /\ pc = "send"
    /\ IF provider.state = "up"
       THEN /\ sent_ts' = sent_ts \o [k \in 1..inflight.n |-> now]
            /\ stats' = [stats EXCEPT !.delivered = @ + inflight.n]
            /\ UNCHANGED queue
       ELSE /\ stats' = [stats EXCEPT !.dropped = @ + inflight.n]
            /\ queue' = AfterFailure(queue, inflight)
            /\ UNCHANGED sent_ts
    /\ inflight' = NoAttempt
    /\ pc' = IF inflight.kind = "single" THEN "loop" ELSE Returned
    /\ UNCHANGED <<now, bufVars, wake, provider, ret, fpVars, ctlVars, ckVars, glVars>>

\* _send_sync returns: True iff the provider answered 200
SendDone ==
    /\ pc = "send"
    /\ IF provider.state = "up"
       THEN /\ sent_ts' = Append(sent_ts, now)
            /\ stats' = [stats EXCEPT !.delivered = @ + inflight.n]
            /\ UNCHANGED queue
       ELSE /\ stats' = [stats EXCEPT !.dropped = @ + inflight.n]
            /\ queue' = AfterFailure(queue, inflight)
            /\ UNCHANGED sent_ts
    /\ inflight' = NoAttempt
    /\ pc' = IF inflight.kind = "single" THEN "loop" ELSE Returned
    /\ UNCHANGED <<now, bufVars, wake, provider, ret, fpVars, ctlVars, ckVars, glVars>>

\* time.sleep(min(wait_secs + 0.1, 5.0)) ends and _drain_once returns
Wake ==
    /\ pc = "sleep"
    /\ now >= wake
    /\ pc' = Returned
    /\ wake' = 0
    /\ UNCHANGED <<now, bufVars, queue, sent_ts, inflight, provider, stats,
                   ret, fpVars, ctlVars, ckVars, glVars>>

\* d of time passes, seen from the sender. The sender uses its timestamps only
\* through their distance to time.time() (lines 326 and 400), so the passing of d
\* is recorded by ageing every timestamp and the end of the sleep by d, and the
\* clock's zero moves along. A timestamp older than the window is kept just
\* beyond it.
Elapse(d) ==
    /\ d > 0
    /\ sent_ts' = [i \in 1..Len(sent_ts) |->
                     IF sent_ts[i] - d < now - Secs(RATE_LIMIT_WINDOW)
                     THEN now - Secs(RATE_LIMIT_WINDOW) - 1
                     ELSE sent_ts[i] - d]
    /\ wake' = IF pc = "sleep" /\ wake - d > now THEN wake - d ELSE now
    /\ UNCHANGED <<now, bufVars, queue, pc, inflight, provider, stats, ret, fpVars,
                   ctlVars, ckVars, glVars>>

\* SenderThread.stop
Stop ==
    /\ ~stop_event
    /\ stop_event' = TRUE
    /\ UNCHANGED <<now, bufVars, sndVars, ret, fpVars, call, final, ckVars, glVars>>

\* run(), lines 313-314: the loop test finds the stop flag set and the final
\* _drain_once is called
FinalDrain ==
    /\ pc = "idle"
    /\ stop_event
    /\ ~final
    /\ final' = TRUE
    /\ pc' = "loop"
    /\ UNCHANGED <<now, bufVars, queue, sent_ts, inflight, wake, provider, stats,
                   ret, fpVars, call, stop_event, ckVars, glVars>>

\* The provider stops answering 200 (an outage), and answers again.
ProviderFail ==
    /\ provider.state = "up"
    /\ provider.outages < MaxOutages
    /\ provider' = [state |-> "down", outages |-> provider.outages + 1]
    /\ UNCHANGED <<now, bufVars, queue, sent_ts, pc, inflight, wake, stats, ret, fpVars, ctlVars, ckVars, glVars>>

ProviderRecover ==
    /\ provider.state = "down"
    /\ provider' = [provider EXCEPT !.state = "up"]
    /\ UNCHANGED <<now, bufVars, queue, sent_ts, pc, inflight, wake, stats, ret, fpVars, ctlVars, ckVars, glVars>>

---------------------------------------------------------------------------
(* TelegramClientSync                                                      *)

\* The text of the k-th message put on the queue by send_urgent.
UrgentText(k) == <<"URGENT", " ">> \o Digits(k)

\* Mutation of send_message: the text is also put on the sender queue.
SendMessageAlsoEnqueue(text) ==
    /\ BufferAdd(text)
    /\ queue' = Append(queue, text)
    /\ stats' = [stats EXCEPT !.added = @ + 1]
    /\ ret' = [op |-> "send_message", value |-> TRUE]
    /\ UNCHANGED <<now, sent_ts, pc, inflight, wake, provider, fpVars, ctlVars, ckVars, glVars>>

\* TelegramClientSync.send_message
SendMessage(text) ==
    /\ BufferAdd(text)
    /\ stats' = [stats EXCEPT !.added = @ + 1]
    /\ ret' = [op |-> "send_message", value |-> TRUE]
    /\ UNCHANGED <<now, queue, sent_ts, pc, inflight, wake, provider, fpVars, ctlVars, ckVars, glVars>>

\* Mutation of send_urgent: the text is also given to the burst buffer.
SendUrgentThroughBuffer(text) ==
    /\ Enqueue(text)
    /\ BufferAdd(text)
    /\ ret' = [op |-> "send_urgent", value |-> TRUE]
    /\ UNCHANGED <<now, sent_ts, pc, inflight, wake, provider, fpVars, ctlVars, ckVars, glVars>>

\* Mutation of send_urgent: the text is delivered by the calling thread.
SendUrgentDelivers(text) ==
    /\ sent_ts' = Append(sent_ts, now)
    /\ stats' = [stats EXCEPT !.enqueued = @ + 1, !.delivered = @ + 1]
    /\ ret' = [op |-> "send_urgent", value |-> TRUE]
    /\ UNCHANGED <<now, bufVars, queue, pc, inflight, wake, provider, fpVars, ctlVars, ckVars, glVars>>

\* TelegramClientSync.send_urgent
SendUrgent(text) ==
    /\ Enqueue(text)
    /\ ret' = [op |-> "send_urgent", value |-> TRUE]
    /\ UNCHANGED <<now, bufVars, sent_ts, pc, inflight, wake, provider, fpVars, ctlVars, ckVars, glVars>>

\* TelegramClientSync.close: _buffer.cancel(), then _sender.stop(); the join that
\* follows waits at most five seconds and changes nothing.
Close ==
    /\ ~stop_event
    /\ timers' = CancelTimer(CancelTimer(timers, silence_timer), max_timer)
    /\ silence_timer' = 0
    /\ max_timer' = 0
    /\ stop_event' = TRUE
    /\ UNCHANGED <<now, groups, on_flush, flushed, burst, sndVars, ret, fpVars,
                   call, final, ckVars, glVars>>

\* BurstBuffer.add called on a buffer of its own
Add(message) ==
    /\ BufferAdd(message)
    /\ UNCHANGED <<now, sndVars, ret, fpVars, ctlVars, ckVars, glVars>>

\* test_connection, lines 465-466: the test message
TestMessage ==
    <<"Test", " ", "Alert", " ", "from", " ", "Stoxxo", " ", "Monitor", NL, NL,
      "Connection", " ", "Successful", NL, "Time:", " ">> \o FormatTime(now)

\* What _run_once returns for _async_get_me: (True, username) when the identity
\* endpoint answers 200 with ok set; (False, None) on any other answer, on a
\* network error, on a timeout and on any exception.
GetMeResult == IF provider.state = "up" THEN <<TRUE, "bot">> ELSE <<FALSE, "None">>

\* verify_connection or test_connection is called: _run_once makes a temporary
\* event loop and runs the getMe request to completion on the calling thread.
VerifyBegin(op) ==
    /\ call = "none"
    /\ call' = op
    /\ UNCHANGED <<now, bufVars, sndVars, ret, fpVars, stop_event, final, ckVars, glVars>>

\* Mutation of the calls' return: a successful verify_connection also enqueues
\* the test message.
GetMeDoneVerifyEnqueues ==
    /\ call # "none"
    /\ IF GetMeResult[1]
       THEN Enqueue(TestMessage)
       ELSE UNCHANGED <<queue, stats>>
    /\ ret' = [op |-> call, value |-> GetMeResult]
    /\ call' = "none"
    /\ UNCHANGED <<now, bufVars, sent_ts, pc, inflight, wake, provider, fpVars,
                   stop_event, final, ckVars, glVars>>

\* The getMe request ends and the call returns; test_connection enqueues its
\* test message on the sender when the check succeeded.
GetMeDone ==
    /\ call # "none"
    /\ IF call = "test" /\ GetMeResult[1]
       THEN Enqueue(TestMessage)
       ELSE UNCHANGED <<queue, stats>>
    /\ ret' = [op |-> call, value |-> GetMeResult]
    /\ call' = "none"
    /\ UNCHANGED <<now, bufVars, sent_ts, pc, inflight, wake, provider, fpVars,
                   stop_event, final, ckVars, glVars>>

---------------------------------------------------------------------------
(* get_status beside the sender: the steps of _clean_old_timestamps        *)

\* self._sent_ts and self._sent_ts[0] < cutoff
Expired(ts, t) == ts # <<>> /\ Head(ts) < t - Secs(RATE_LIMIT_WINDOW)

\* _drain_once, line 321: the loop test, on the sender thread
LoopTest ==
    /\ pc = "loop"
    /\ pc' = IF queue = <<>> THEN Returned ELSE "clean"
    /\ UNCHANGED <<now, bufVars, queue, sent_ts, inflight, wake, provider, stats, ret,
                   fpVars, ctlVars, ckVars, glVars>>

\* _clean_old_timestamps on the sender thread: the test of the while loop
CleanTest ==
    /\ pc = "clean"
    /\ pc' = IF Expired(sent_ts, now) THEN "popleft" ELSE "check"
    /\ UNCHANGED <<now, bufVars, queue, sent_ts, inflight, wake, provider, stats, ret,
                   fpVars, ctlVars, ckVars, glVars>>

\* _clean_old_timestamps on the sender thread: popleft(). On an empty deque it
\* raises IndexError, which nothing in _drain_once or run() catches: the
\* thread ends.
CleanPop ==
    /\ pc = "popleft"
    /\ IF sent_ts = <<>>
       THEN /\ pc' = "raised"
            /\ UNCHANGED sent_ts
       ELSE /\ sent_ts' = Tail(sent_ts)
            /\ pc' = "clean"
    /\ UNCHANGED <<now, bufVars, queue, inflight, wake, provider, stats, ret, fpVars,
                   ctlVars, ckVars, glVars>>

\* TelegramClientSync.get_rate_limit_status -> SenderThread.get_status, on the
\* calling thread: _clean_old_timestamps is entered
StatusBegin ==
    /\ call = "none"
    /\ call' = "status_clean"
    /\ UNCHANGED <<now, bufVars, sndVars, ret, fpVars, stop_event, final, ckVars, glVars>>

\* get_status on the calling thread: the test of the while loop and, when it
\* ends the loop, the dict returned
StatusTest ==
    /\ call = "status_clean"
    /\ IF Expired(sent_ts, now)
       THEN /\ call' = "status_popleft"
            /\ UNCHANGED ret
       ELSE /\ call' = "none"
            /\ ret' = [op |-> "get_status", value |-> TRUE,
                       queue_size |-> Len(queue), sent_in_window |-> Len(sent_ts)]
    /\ UNCHANGED <<now, bufVars, sndVars, fpVars, stop_event, final, ckVars, glVars>>

\* get_status on the calling thread: popleft(); IndexError on an empty deque
\* reaches the caller
StatusPop ==
    /\ call = "status_popleft"
    /\ IF sent_ts = <<>>
       THEN /\ call' = "none"
            /\ ret' = [op |-> "get_status", value |-> FALSE,
                       queue_size |-> 0, sent_in_window |-> 0]
            /\ UNCHANGED sent_ts
       ELSE /\ sent_ts' = Tail(sent_ts)
            /\ call' = "status_clean"
            /\ UNCHANGED ret
    /\ UNCHANGED <<now, bufVars, queue, pc, inflight, wake, provider, stats, fpVars,
                   stop_event, final, ckVars, glVars>>

\* A thread is inside _clean_old_timestamps
Cleaning == pc \in {"clean", "popleft"} \/ call \in {"status_clean", "status_popleft"}

---------------------------------------------------------------------------
(* Fingerprints of the alerts the monitor produces                         *)

FpParams ==
    { Grid(type, time, user, strategy, portfolio, <<"Rejected">>) :
        type \in {<<"ATTENTION">>, <<"ERROR">>},
        time \in {Time1, Time2},
        user \in {<<>>, <<"FZ1">>, <<"FZ1", " ", "|", " ", "X">>},
        strategy \in {<<>>, <<"S1">>},
        portfolio \in {<<>>, <<"P1">>, <<"P2">>} }
    \cup
    { Position(category, alias, <<"Margin">>, <<"8", "0">>, actual) :
        category \in {<<"MARGIN", " ", "ALERT">>, <<"MTM", " ", "ALERT">>},
        alias \in {<<"FZ1">>, <<"Sim1">>},
        actual \in {<<"9", "1">>, <<"9", "5">>} }

\* BurstBuffer.add, line 77: the fingerprints of the two messages
FpCompute ==
    /\ fp_in # <<>>
    /\ fp_out = <<>>
    /\ fp_out' = <<Fingerprint(MessageText(fp_in[1])), Fingerprint(MessageText(fp_in[2]))>>
    /\ UNCHANGED <<now, bufVars, sndVars, ret, fp_in, ctlVars, ckVars, glVars>>

---------------------------------------------------------------------------
(* AlertChecker: the cooldown registry                                     *)

\* self.cooldown_seconds
cooldown_seconds == 300

\* The polling loop's calls are half a cooldown apart at the closest.
HalfCooldown == Secs(cooldown_seconds) \div 2

\* The user aliases of the summaries checked; an account without an alias has
\* the empty string.
Users == {"", "FZ1"}

AlertTypes == {"mtm_above", "margin_above"}

\* What the cooldown reads of an AlertEvent: <<user_alias, alert_type>>
Pairs == Users \X AlertTypes

\* A dict with the keys D of f; the empty dict is <<>>.
Restrict(f, D) == IF D = {} THEN <<>> ELSE [x \in D |-> f[x]]

\* d[k] = v
Put(d, k, v) == [x \in DOMAIN d \cup {k} |-> IF x = k THEN v ELSE d[x]]

\* self._cooldowns[user_alias].get(alert_type, 0)
LastTrigger(reg, u, ty) ==
    IF u \in DOMAIN reg /\ ty \in DOMAIN reg[u] THEN reg[u][ty] ELSE 0

\* Mutation of _apply_cooldown: an alert passes only after more than the
\* cooldown.
CooldownExpiredLate(time_since_last) == time_since_last > Secs(cooldown_seconds)

\* if time_since_last >= self.cooldown_seconds
CooldownExpired(time_since_last) == time_since_last >= Secs(cooldown_seconds)

\* Mutation of _apply_cooldown: a suppressed alert restarts the cooldown.
AfterSuppressedRestart(reg, u, ty, t) == Put(reg, u, Put(reg[u], ty, t))

\* _apply_cooldown, lines 342-346: the else branch only logs
AfterSuppressed(reg, u, ty, t) == reg

RECURSIVE ApplyCooldown(_, _, _, _)
\* AlertChecker._apply_cooldown at current_time t: the registry and the filtered
\* list after the alerts were gone through in order
ApplyCooldown(reg, alerts, t, filtered) ==
    IF alerts = <<>> THEN [reg |-> reg, out |-> filtered]
    ELSE LET u    == Head(alerts)[1]
             ty   == Head(alerts)[2]
             reg1 == IF u \in DOMAIN reg THEN reg ELSE Put(reg, u, <<>>)
         IN  IF CooldownExpired(t - LastTrigger(reg1, u, ty))
             THEN ApplyCooldown(Put(reg1, u, Put(reg1[u], ty, t)), Tail(alerts), t,
                                Append(filtered, Head(alerts)))
             ELSE ApplyCooldown(AfterSuppressed(reg1, u, ty, t), Tail(alerts), t,
                                filtered)

\* The batches of alerts whose rules fire in one check_all_alerts call.
Batches == UNION { [1..n -> Pairs] : n \in 1..MaxBatch }

\* AlertChecker.check_all_alerts with the rules of `alerts` firing; the history
\* keeps the last call, its input and output, and the time each pair was last
\* emitted.
CheckAllAlerts(alerts) ==
    LET r == ApplyCooldown(cooldowns, alerts, now, <<>>)
    IN  /\ cooldowns' = r.reg
        /\ emitted' = [calls |-> emitted.calls + 1,
                       op    |-> "check",
                       arg   |-> "",
                       fired |-> alerts,
                       out   |-> r.out,
                       last  |-> [p \in Pairs |->
                                    IF \E i \in 1..Len(r.out) : r.out[i] = p
                                    THEN now ELSE emitted.last[p]]]
        /\ UNCHANGED <<now, bufVars, sndVars, ret, fpVars, ctlVars, rule_in, rule_out, glVars>>

\* AlertChecker.clear_cooldowns(user_alias); "None" stands for no argument. An
\* empty alias is falsy and takes the else branch.
ClearCooldowns(user_alias) ==
    /\ cooldowns' = IF user_alias # "None" /\ user_alias # ""
                    THEN Restrict(cooldowns, DOMAIN cooldowns \ {user_alias})
                    ELSE <<>>
    /\ emitted' = [emitted EXCEPT !.op = "clear", !.arg = user_alias,
                                  !.fired = <<>>, !.out = <<>>]
    /\ UNCHANGED <<now, bufVars, sndVars, ret, fpVars, ctlVars, rule_in, rule_out, glVars>>

---------------------------------------------------------------------------
(* AlertService: the evaluation cycle for position alerts                  *)

\* AlertEvent.format_message for the alert of pair p; the breach is that of a
\* margin or MTM metric over its threshold.
BreachText(p) ==
    MessageText(Position(IF p[2] = "margin_above" THEN <<"MARGIN", " ", "ALERT">>
                                                  ELSE <<"MTM", " ", "ALERT">>,
                         <<p[1]>>,
                         IF p[2] = "margin_above" THEN <<"Margin">> ELSE <<"MTM">>,
                         <<"8", "0">>, <<"9", "1">>))

\* The rules that are in breach, and stay so, in SpecService.
Breaches == {<<"FZ1", "mtm_above">>, <<"FZ1", "margin_above">>}

\* AlertService._check_position_alerts while the rule of pair p fires:
\* check_all_alerts, then send_message for every alert it returned.
Cycle(p) ==
    LET r == ApplyCooldown(cooldowns, <<p>>, now, <<>>)
    IN  /\ cooldowns' = r.reg
        /\ emitted' = [calls |-> emitted.calls + 1,
                       op    |-> "check",
                       arg   |-> "",
                       fired |-> <<p>>,
                       out   |-> r.out,
                       last  |-> [q \in Pairs |->
                                    IF r.out # <<>> /\ q = p THEN now ELSE emitted.last[q]]]
        /\ IF r.out # <<>>
           THEN /\ BufferAdd(BreachText(p))
                /\ stats' = [stats EXCEPT !.added = @ + 1]
                /\ ret' = [op |-> "send_message", value |-> TRUE]
           ELSE UNCHANGED <<bufVars, stats, ret>>
        /\ UNCHANGED <<now, queue, sent_ts, pc, inflight, wake, provider, fpVars, ctlVars,
                       rule_in, rule_out, glVars>>

---------------------------------------------------------------------------
(* AlertChecker: the threshold rules                                       *)

Abs(n) == IF n < 0 THEN -n ELSE n

IsDigit(c) == c \in {"0", "1", "2", "3", "4", "5", "6", "7", "8", "9"}

DigitValue(c) == CHOOSE d \in 0..9 : DigitOf(d) = c

RECURSIVE ToNat(_)
ToNat(s) == IF s = <<>> THEN 0
            ELSE ToNat(SubSeq(s, 1, Len(s) - 1)) * 10 + DigitValue(s[Len(s)])

\* float(x) on the texts a threshold field is given here: whitespace around
\* the number and a sign are accepted and a run of digits is its value;
\* anything else raises ValueError (ok = FALSE). Fractions are not drawn.
Float(x) ==
    LET s      == Strip(x)
        signed == s # <<>> /\ Head(s) \in {"-", "+"}
        d      == IF signed THEN Tail(s) ELSE s
    IN  IF d # <<>> /\ \A i \in 1..Len(d) : IsDigit(d[i])
        THEN [ok |-> TRUE, value |-> IF signed /\ Head(s) = "-" THEN -ToNat(d) ELSE ToNat(d)]
        ELSE [ok |-> FALSE, value |-> 0]

\* thresholds.get(key, '')
DictGet(thresholds, key) ==
    IF key \in DOMAIN thresholds THEN thresholds[key] ELSE <<>>

\* `if x and x.strip()`
Entered(x) == x # <<>> /\ Strip(x) # <<>>

\* What the model keeps of an AlertEvent: <<user_alias, alert_type, threshold>>
AlertEvent(summary, alert_type, threshold) ==
    <<summary.user_alias, alert_type, threshold>>

\* (numerator / denominator) * 100 > threshold for a positive denominator,
\* decided on the exact fraction; the rounding of the float division is not
\* modelled.
PercentAbove(numerator, denominator, threshold) ==
    numerator * 100 > threshold * denominator

PercentBelow(numerator, denominator, threshold) ==
    numerator * 100 < threshold * denominator

\* roi_percent > threshold, roi_percent being (mtm / utilized_margin) * 100 if
\* utilized_margin > 0 else 0
RoiAbove(summary, threshold) ==
    IF summary.utilized_margin > 0
    THEN PercentAbove(summary.live_pnl, summary.utilized_margin, threshold)
    ELSE 0 > threshold

\* roi_percent < threshold
RoiBelow(summary, threshold) ==
    IF summary.utilized_margin > 0
    THEN PercentBelow(summary.live_pnl, summary.utilized_margin, threshold)
    ELSE 0 < threshold

\* `if roi_percent < -threshold`
RoiBelowLimit(threshold) == -threshold

\* AlertChecker._check_mtm_roi
CheckMtmRoi(summary, thresholds) ==
    LET mtm == summary.live_pnl
        Rule(key, Fires(_), Reported(_)) ==
            LET x == DictGet(thresholds, key)
                f == Float(x)
            IN  IF Entered(x) /\ f.ok /\ Fires(f.value)
                THEN <<AlertEvent(summary, key, Reported(f.value))>>
                ELSE <<>>
        MtmAbove(t)   == mtm > t
        MtmBelow(t)   == mtm < t
        RoiOver(t)    == RoiAbove(summary, t)
        RoiUnder(t)   == RoiBelow(summary, RoiBelowLimit(t))
        Same(t)       == t
        Negated(t)    == -t
    IN  Rule("mtm_above", MtmAbove, Same) \o Rule("mtm_below", MtmBelow, Same)
          \o Rule("roi_above", RoiOver, Same) \o Rule("roi_below", RoiUnder, Negated)

\* AlertChecker._check_margin
CheckMargin(summary, threshold) ==
    LET f            == Float(threshold)
        total_margin == summary.available_margin + summary.utilized_margin
        Above(t)     == IF total_margin > 0
                        THEN PercentAbove(summary.utilized_margin, total_margin, t)
                        ELSE 0 > t
    IN  IF ~Entered(threshold) THEN <<>>
        ELSE IF f.ok /\ Above(f.value)
             THEN <<AlertEvent(summary, "margin_above", f.value)>>
             ELSE <<>>

\* Mutation of _check_quantities: every quantity is compared by its absolute
\* value.
CompareValueAbsolute(actual_value, use_absolute) == Abs(actual_value)

\* compare_value = abs(actual_value) if use_absolute else actual_value
CompareValue(actual_value, use_absolute) ==
    IF use_absolute THEN Abs(actual_value) ELSE actual_value

\* The checks list of _check_quantities: <<threshold_key, actual_value,
\* use_absolute>>
QuantityChecks(summary) ==
    << <<"calls_sell", summary.call_sell_qty, TRUE>>,
       <<"puts_sell",  summary.put_sell_qty,  TRUE>>,
       <<"calls_buy",  summary.call_buy_qty,  FALSE>>,
       <<"puts_buy",   summary.put_buy_qty,   FALSE>>,
       <<"calls_net",  summary.calls_net,     TRUE>>,
       <<"puts_net",   summary.puts_net,      TRUE>> >>

RECURSIVE CheckQuantitiesFrom(_, _, _, _)
CheckQuantitiesFrom(summary, thresholds, checks, alerts) ==
    IF checks = <<>> THEN alerts
    ELSE LET threshold_key == Head(checks)[1]
             threshold_str == DictGet(thresholds, threshold_key)
             f             == Float(threshold_str)
         IN  IF ~Entered(threshold_str)
             THEN CheckQuantitiesFrom(summary, thresholds, Tail(checks), alerts)
             ELSE IF f.ok /\ CompareValue(Head(checks)[2], Head(checks)[3]) > f.value
                  THEN CheckQuantitiesFrom(summary, thresholds, Tail(checks),
                           Append(alerts, AlertEvent(summary, threshold_key, f.value)))
                  ELSE CheckQuantitiesFrom(summary, thresholds, Tail(checks), alerts)

\* AlertChecker._check_quantities
CheckQuantities(summary, thresholds) ==
    CheckQuantitiesFrom(summary, thresholds, QuantityChecks(summary), <<>>)

RECURSIVE RuleAlerts(_, _, _, _)
\* The loop of check_all_alerts over the summaries, before the cooldown
RuleAlerts(summaries, mtm_roi_thresholds, margin_thresholds, quantity_thresholds) ==
    IF summaries = <<>> THEN <<>>
    ELSE LET summary    == Head(summaries)
             user_alias == summary.user_alias
         IN  (IF user_alias \in DOMAIN mtm_roi_thresholds
              THEN CheckMtmRoi(summary, mtm_roi_thresholds[user_alias]) ELSE <<>>)
             \o (IF user_alias \in DOMAIN margin_thresholds
                    /\ margin_thresholds[user_alias] # <<>>
                 THEN CheckMargin(summary, margin_thresholds[user_alias]) ELSE <<>>)
             \o (IF user_alias \in DOMAIN quantity_thresholds
                 THEN CheckQuantities(summary, quantity_thresholds[user_alias]) ELSE <<>>)
             \o RuleAlerts(Tail(summaries), mtm_roi_thresholds, margin_thresholds,
                           quantity_thresholds)

\* Mutation of _check_position_alerts: the thresholds of a disabled category
\* are passed on.
PassedAnyway(enabled, thresholds) == thresholds

\* `self.mtm_roi_thresholds if self.mtm_roi_enabled else {}`
Passed(enabled, thresholds) == IF enabled THEN thresholds ELSE <<>>

\* The rule keys, by category
MtmRoiKeys   == {"mtm_above", "mtm_below", "roi_above", "roi_below"}
QuantityKeys == {"calls_sell", "puts_sell", "calls_buy", "puts_buy", "calls_net",
                 "puts_net"}
RuleKeys     == MtmRoiKeys \cup {"margin_above"} \cup QuantityKeys

CategoryOf(key) == IF key \in MtmRoiKeys THEN "mtm_roi"
                   ELSE IF key = "margin_above" THEN "margin" ELSE "quantity"

\* A threshold field of the settings: left out of the dict (Absent), empty,
\* blank, or a text typed by the user.
Absent == <<"absent">>
Texts  == { Absent, <<>>, <<" ">>, <<"2">>, <<" ", "2", " ">>, <<"-", "2">>, <<"0">>,
            <<"x">> }

\* The values of the metric a rule reads
Vals == (0 - MaxMetric)..MaxMetric

\* The evaluations drawn: the rule under test with its metric at v and its
\* threshold field at text, every other rule's field at others; listed tells
\* whether the user has an entry in the map of the rule's category and enabled
\* whether that category is switched on; total is the account's margin.
Scenarios ==
    [rule : RuleKeys, v : Vals, text : Texts, others : {Absent, <<>>, <<"0">>},
     listed : BOOLEAN, enabled : BOOLEAN, total : {0, 100}]

\* The position summary of user FZ1 in scenario sc: a short and a long leg on
\* each side, one unit of profit, the margin in use; the metric of the rule
\* under test at sc.v.
SummaryOf(sc) ==
    LET Is(key)    == sc.rule = key
        call_sell  == IF Is("calls_sell") THEN sc.v
                      ELSE IF Is("calls_net") THEN Min(sc.v, 0) ELSE -1
        call_buy   == IF Is("calls_buy") THEN sc.v
                      ELSE IF Is("calls_net") THEN sc.v - Min(sc.v, 0) ELSE 1
        put_sell   == IF Is("puts_sell") THEN sc.v
                      ELSE IF Is("puts_net") THEN Min(sc.v, 0) ELSE -1
        put_buy    == IF Is("puts_buy") THEN sc.v
                      ELSE IF Is("puts_net") THEN sc.v - Min(sc.v, 0) ELSE 1
        utilized   == IF Is("margin_above")
                      THEN (IF sc.v > 0 THEN sc.v ELSE 0) ELSE sc.total
    IN  [user_alias       |-> "FZ1",
         live_pnl         |-> IF sc.rule \in MtmRoiKeys THEN sc.v ELSE 1,
         call_sell_qty    |-> call_sell,
         call_buy_qty     |-> call_buy,
         put_sell_qty     |-> put_sell,
         put_buy_qty      |-> put_buy,
         calls_net        |-> call_sell + call_buy,
         puts_net         |-> put_sell + put_buy,
         utilized_margin  |-> utilized,
         available_margin |-> sc.total - Min(utilized, sc.total)]

\* The threshold dict of the keys K in scenario sc; a field left out has no key
FieldsOf(sc, K) ==
    LET text(key) == IF key = sc.rule THEN sc.text ELSE sc.others
    IN  Restrict([key \in K |-> text(key)], {key \in K : text(key) # Absent})

\* The settings map of a category in scenario sc: an entry for FZ1, or for
\* another user only
MapOf(sc, category, entry) ==
    IF CategoryOf(sc.rule) = category /\ ~sc.listed
    THEN [u \in {"FZ2"} |-> entry]
    ELSE [u \in {"FZ1"} |-> entry]

\* update_position_data and update_config in scenario sc
RuleInput(sc) ==
    LET margin == IF sc.rule = "margin_above" THEN sc.text ELSE sc.others
    IN  [summaries |-> <<SummaryOf(sc)>>,
         mtm_roi   |-> MapOf(sc, "mtm_roi", FieldsOf(sc, MtmRoiKeys)),
         margin    |-> IF margin = Absent THEN <<>> ELSE MapOf(sc, "margin", margin),
         quantity  |-> MapOf(sc, "quantity", FieldsOf(sc, QuantityKeys)),
         enabled   |-> [c \in {"mtm_roi", "margin", "quantity"} |->
                          CategoryOf(sc.rule) # c \/ sc.enabled]]

\* The call of check_all_alerts in AlertService._check_position_alerts on the
\* current summaries and settings
Evaluate ==
    /\ rule_out.calls = 0
    /\ LET alerts == RuleAlerts(rule_in.summaries,
                                Passed(rule_in.enabled["mtm_roi"], rule_in.mtm_roi),
                                Passed(rule_in.enabled["margin"], rule_in.margin),
                                Passed(rule_in.enabled["quantity"], rule_in.quantity))
           r      == ApplyCooldown(cooldowns, alerts, now, <<>>)
       IN  /\ cooldowns' = r.reg
           /\ rule_out' = [calls |-> 1, fired |-> alerts, out |-> r.out]
    /\ UNCHANGED <<now, bufVars, sndVars, ret, fpVars, ctlVars, emitted, rule_in, glVars>>

---------------------------------------------------------------------------
(* GridLogMonitor: the log tailer (src/core/grid_log_monitor.py)           *)

COMMA == ","

RECURSIVE SplitAt(_, _, _, _, _)
SplitAt(s, sep, i, cur, acc) ==
    IF i > Len(s) THEN Append(acc, cur)
    ELSE IF s[i] = sep THEN SplitAt(s, sep, i + 1, <<>>, Append(acc, cur))
    ELSE SplitAt(s, sep, i + 1, Append(cur, s[i]), acc)

\* str.split(sep) for a separator of one symbol; "".split(",") is [""]
Split(s, sep) == SplitAt(s, sep, 1, <<>>, <<>>)

\* str.upper() and str.lower(), symbol by symbol; the words of the log that
\* have letters of the other case are listed.
UpperOf(c) == CASE c = "Attention" -> "ATTENTION"
                [] c = "error"     -> "ERROR"
                [] OTHER           -> c

LowerOf(c) == CASE c = "ATTENTION" -> "attention"
                [] c = "Attention" -> "attention"
                [] c = "ERROR"     -> "error"
                [] c = "Feed"      -> "feed"
                [] OTHER           -> c

Upper(s) == [k \in 1..Len(s) |-> UpperOf(s[k])]

Lower(s) == [k \in 1..Len(s) |-> LowerOf(s[k])]

\* sub in s
Contains(s, sub) ==
    \E i \in 1..(Len(s) + 1) :
        i + Len(sub) - 1 <= Len(s) /\ SubSeq(s, i, i + Len(sub) - 1) = sub

\* self.valid_types
valid_types == { <<"ATTENTION">>, <<"ERROR">>, <<"WARNING">> }

\* _parse_log_line returns None
NoAlert == <<>>

\* _parse_log_line, lines 241-246: a filter keyword appears in the line
Filtered(line, filter_keywords) ==
    \E k \in 1..Len(filter_keywords) :
        Contains(Lower(line), Lower(Strip(filter_keywords[k])))

\* GridLogMonitor._parse_log_line: the record
\* (alert_type, timestamp, message, user_id, strategy_tag, portfolio_name)
ParseLogLine(raw, enabled_types, filter_keywords) ==
    LET line  == Strip(raw)
        parts == Split(line, COMMA)
        n     == Len(parts)
    IN  IF line = <<>> THEN NoAlert
        ELSE IF n < 6 THEN NoAlert
        ELSE IF Upper(Strip(parts[2])) \notin valid_types THEN NoAlert
        ELSE IF Upper(Strip(parts[2])) \notin enabled_types THEN NoAlert
        ELSE IF Filtered(line, filter_keywords) THEN NoAlert
        ELSE << Upper(Strip(parts[2])),
                Strip(parts[1]),
                Strip(JoinWith(<<COMMA>>, SubSeq(parts, 3, n - 3))),
                Strip(parts[n - 2]),
                Strip(parts[n - 1]),
                Strip(parts[n]) >>

\* pending_partial = None
NoPartial == <<"None">>

NO_ACTION == <<"No Action Required">>

\* alerts.append(alert) under `if alert:`
AppendAlert(acc, alert) == IF alert # NoAlert THEN Append(acc, alert) ELSE acc

RECURSIVE ReadLoop(_, _, _, _, _, _)
\* check_for_new_entries, lines 126-182: the loop over readline() from line i
\* of the file on; readline returns the line with its newline, and "" at the
\* end of the file.
ReadLoop(lines, i, pending_partial, acc, enabled_types, filter_keywords) ==
    IF i > Len(lines) THEN acc
    ELSE
      LET stripped == Strip(lines[i].text \o <<NL>>)
          parts    == Split(stripped, COMMA)
          Rest(pp, a) == ReadLoop(lines, i + 1, pp, a, enabled_types, filter_keywords)
      IN  IF pending_partial # NoPartial /\ stripped = <<>>
          THEN Rest(pending_partial, acc)
          ELSE IF pending_partial # NoPartial /\ StartsWith(stripped, NO_ACTION)
          THEN IF Len(parts) >= 4
               THEN LET suffix   == JoinWith(<<COMMA>>, SubSeq(parts, Len(parts) - 2, Len(parts)))
                        combined == RStrip(pending_partial) \o <<COMMA>> \o suffix
                    IN  Rest(NoPartial,
                             AppendAlert(acc, ParseLogLine(combined, enabled_types, filter_keywords)))
               ELSE Rest(NoPartial, acc)
          ELSE IF stripped = <<>>
          THEN Rest(NoPartial, acc)
          ELSE IF Len(parts) >= 2 /\ Upper(Strip(parts[2])) = <<"ATTENTION">> /\ Len(parts) < 6
          THEN Rest(stripped, acc)
          ELSE Rest(NoPartial,
                    AppendAlert(acc, ParseLogLine(stripped, enabled_types, filter_keywords)))

\* GridLogMonitor._open_log_file: whether the file is open, and the monitor's
\* fields after the call. A path is the day of its directory; a position is a
\* number of lines.
OpenLogFile ==
    LET log_path == today
        new_day  == current_file_path # log_path
        closed   == IF new_day THEN [file_handle EXCEPT !.open = FALSE] ELSE file_handle
        position == IF new_day THEN 0 ELSE last_position
        exists   == files[log_path].exists
        end      == Len(files[log_path].lines)
        opening  == exists /\ ~closed.open
    IN  [ ok     |-> exists,
          handle |-> IF opening
                     THEN [path |-> log_path, open |-> TRUE,
                           pos  |-> IF position = 0 THEN end ELSE position]
                     ELSE closed,
          path   |-> log_path,
          pos    |-> IF opening /\ position = 0 THEN end ELSE position ]

\* GridLogMonitor.check_for_new_entries: the records it returns, the monitor's
\* fields after the call, and the lines readline has returned.
CheckForNewEntries(enabled_types, filter_keywords) ==
    LET o == OpenLogFile
    IN  IF ~o.ok
        THEN [alerts |-> <<>>, handle |-> o.handle, path |-> o.path, pos |-> o.pos,
              read |-> <<>>]
        ELSE LET lines == files[o.handle.path].lines
             IN  [alerts |-> ReadLoop(lines, o.handle.pos + 1, NoPartial, <<>>,
                                      enabled_types, filter_keywords),
                  handle |-> [o.handle EXCEPT !.pos = Len(lines)],
                  path   |-> o.path,
                  pos    |-> Len(lines),
                  read   |-> [k \in 1..(Len(lines) - o.handle.pos) |->
                                <<o.handle.path, o.handle.pos + k>>]]

\* The parameters of format_alert_message, lines 344-351
FormatParams ==
    <<"alert_type", "timestamp", "message", "user_id", "user_alias",
      "strategy_tag", "portfolio_name">>

\* _check_grid_log_alerts, lines 225-228: the record is unpacked into six names
\* and these are the positional arguments of the call
FormatArgs(alert) == <<alert[1], alert[2], alert[3], alert[4], alert[5], alert[6]>>

\* Calling a function whose parameters have no defaults with another number of
\* positional arguments raises TypeError.
Raises(args) == Len(args) # Len(FormatParams)

\* format_alert_message, line 372: milliseconds trimmed from 13:48:12:331
DisplayTime(timestamp) ==
    LET colons == { i \in 1..Len(timestamp) : timestamp[i] = ":" }
        last   == CHOOSE i \in colons : \A j \in colons : j <= i
    IN  IF Cardinality(colons) = 3 THEN SubSeq(timestamp, 1, last - 1) ELSE timestamp

\* _shorten_issue on a message that holds none of its patterns and is shorter
\* than 200 characters (line 338)
ShortenIssue(message) == Strip(message)

\* format_alert_message, lines 378-383
UserLine(user_id, user_alias) ==
    IF user_id # <<>> /\ user_alias # <<>>
    THEN user_id \o <<" ", "(">> \o user_alias \o <<")">>
    ELSE IF user_id # <<>> THEN user_id ELSE user_alias

\* GridLogMonitor.format_alert_message on the arguments in parameter order
FormatAlertMessage(a) ==
    MessageText(Grid(a[1], DisplayTime(a[2]), UserLine(a[4], a[5]), a[6], a[7],
                     ShortenIssue(a[3])))

\* The alert types enabled in the service's settings, and no filter keywords
EnabledTypes == valid_types
FilterKeywords == <<>>

\* The timestamp of the k-th entry of the log
Stamp(k) == <<"13", ":", "12", ":">> \o TwoDigits(k) \o <<":", "508">>

\* The lines the log writer writes for entry k: a complete row whose message
\* holds a comma, and the three lines of an ATTENTION entry.
RowText(k) ==
    Stamp(k) \o <<COMMA, "error", COMMA, "Feed", " ", "lost", COMMA, " ", "retrying",
                  COMMA, "FZ1", COMMA, "S1", COMMA, "P1">>
PartialText(k) == Stamp(k) \o <<COMMA, "ATTENTION", COMMA, "Order", " ", "Rejected">>
BlankText == <<>>
ContinuationText ==
    NO_ACTION \o <<" ", "from", " ", "User!.", COMMA, "FZ1", COMMA, "S1", COMMA, "P1">>

\* The monitor has opened a log file at least once.
Opened == file_handle.path # 0

\* The writer appends one line to today's file, which it creates if needed.
\* fresh, entry and role are history: whether the monitor had opened a file
\* before, the entry the line belongs to, and which of its lines it is.
AppendLine(text, entry, role) ==
    files' = [files EXCEPT ![today] =
                [exists |-> TRUE,
                 lines  |-> Append(@.lines, [text |-> text, fresh |-> Opened,
                                             entry |-> entry, role |-> role])]]

\* The log writer: a complete row, or an ATTENTION entry line by line (first
\* line, an optional blank line, the continuation line).
WriterAppend(role) ==
    /\ CASE role = "row" ->
              /\ writer.pc = "idle" /\ writer.entries < MaxEntries
              /\ AppendLine(RowText(writer.entries + 1), writer.entries + 1, role)
              /\ writer' = [writer EXCEPT !.entries = @ + 1]
         [] role = "partial" ->
              /\ writer.pc = "idle" /\ writer.entries < MaxEntries
              /\ AppendLine(PartialText(writer.entries + 1), writer.entries + 1, role)
              /\ writer' = [pc |-> "partial", entries |-> writer.entries + 1]
         [] role = "blank" ->
              /\ writer.pc = "partial"
              /\ AppendLine(BlankText, writer.entries, role)
              /\ writer' = [writer EXCEPT !.pc = "blank"]
         [] role = "continuation" ->
              /\ writer.pc \in {"partial", "blank"}
              /\ AppendLine(ContinuationText, writer.entries, role)
              /\ writer' = [writer EXCEPT !.pc = "idle"]
    /\ UNCHANGED <<now, bufVars, sndVars, ret, fpVars, ctlVars, ckVars, today,
                   file_handle, current_file_path, last_position, grid_alerts,
                   examined, returned>>

\* Midnight passes between two entries of the log.
DateChange ==
    /\ today < MaxDays
    /\ writer.pc = "idle"
    /\ today' = today + 1
    /\ UNCHANGED <<now, bufVars, sndVars, ret, fpVars, ctlVars, ckVars, files, writer,
                   file_handle, current_file_path, last_position, grid_alerts,
                   examined, returned>>

\* AlertService._check_grid_log_alerts, lines 199-221: the call of
\* check_for_new_entries
CheckGridLogAlerts ==
    /\ grid_alerts = <<>>
    /\ LET r == CheckForNewEntries(EnabledTypes, FilterKeywords)
       IN  /\ file_handle' = r.handle
           /\ current_file_path' = r.path
           /\ last_position' = r.pos
           /\ grid_alerts' = r.alerts
           /\ examined' = examined \o r.read
           /\ returned' = returned \o r.alerts
    /\ UNCHANGED <<now, bufVars, sndVars, ret, fpVars, ctlVars, ckVars, today, files,
                   writer>>

\* _check_grid_log_alerts, lines 224-242: one pass of the loop over the records.
\* The TypeError of the call leaves the loop for the handler of line 241, which
\* logs it; the remaining records are gone with the local list.
SendGridAlert ==
    /\ grid_alerts # <<>>
    /\ LET args == FormatArgs(Head(grid_alerts))
       IN  IF Raises(args)
           THEN /\ grid_alerts' = <<>>
                /\ UNCHANGED <<bufVars, stats, ret>>
           ELSE /\ BufferAdd(FormatAlertMessage(args))
                /\ stats' = [stats EXCEPT !.added = @ + 1]
                /\ ret' = [op |-> "send_message", value |-> TRUE]
                /\ grid_alerts' = Tail(grid_alerts)
    /\ UNCHANGED <<now, queue, sent_ts, pc, inflight, wake, provider, fpVars, ctlVars,
                   ckVars, today, files, writer, file_handle, current_file_path,
                   last_position, examined, returned>>

---------------------------------------------------------------------------
(* Specifications                                                          *)

\* TelegramClientSync.__init__: a started sender and a buffer wired to it
Init ==
    /\ now = 0
    /\ groups = <<>>
    /\ silence_timer = 0
    /\ max_timer = 0
    /\ timers = {}
    /\ on_flush = "enqueue"
    /\ flushed = <<>>
    /\ burst = NoBurst
    /\ queue = <<>>
    /\ sent_ts = <<>>
    /\ pc = "idle"
    /\ inflight = NoAttempt
    /\ wake = 0
    /\ provider = [state |-> "up", outages |-> 0]
    /\ stats = [enqueued |-> 0, delivered |-> 0, dropped |-> 0, added |-> 0]
    /\ ret = NoCall
    /\ fp_in = <<>>
    /\ fp_out = <<>>
    /\ NoFacade
    /\ NoGridLog
    /\ NoChecker

\* The times at which something is due: an armed timer, the end of the sender's
\* rate-limit sleep.
NextEvents == { t.due : t \in timers } \cup (IF pc = "sleep" THEN {wake} ELSE {})

\* The delay to the earliest of them.
NextDelay == (CHOOSE e \in NextEvents : \A f \in NextEvents : e <= f) - now

\* The sender under send_urgent traffic.
Next ==
    \/ /\ stats.enqueued < MaxEnq
       /\ Len(queue) < MaxQueue
       /\ SendUrgent(UrgentText(stats.enqueued + 1))
    \/ Drain
    \/ LoopHead
    \/ Check
    \/ Get
    \/ Combine
    \/ SendDone
    \/ Wake
    \/ ProviderFail
    \/ ProviderRecover
    \/ now + Stride <= MaxTime /\ Tick(Stride)

Spec == Init /\ [][Next]_vars

\* The whole client: send_message through the buffer, send_urgent, the sender.
NextClient ==
    \/ \E m \in Alerts : stats.added < MaxSends /\ SendMessage(m)
    \/ /\ stats.enqueued < MaxEnq
       /\ Len(queue) < MaxQueue
       /\ SendUrgent(UrgentText(stats.enqueued + 1))
    \/ \E t \in timers : TimerExpire(t)
    \/ \E t \in timers : Flush(t)
    \/ Drain
    \/ LoopHead
    \/ Check
    \/ Get
    \/ Combine
    \/ SendDone
    \/ Wake
    \/ ProviderFail
    \/ ProviderRecover
    \/ NextEvents # {} /\ now + NextDelay <= MaxClientTime /\ Tick(NextDelay)

SpecClient == Init /\ [][NextClient]_vars

\* The steps of the sender thread.
SenderStep == Drain \/ LoopHead \/ Check \/ Get \/ Combine \/ SendDone \/ Wake

\* The sender under send_urgent traffic with a clock that never ends: the thread
\* is scheduled again and again and time keeps passing. Whether an attempt
\* succeeds plays no part in what the sender does next, so the provider stays up.
NextLive ==
    \/ /\ stats.enqueued < MaxLiveEnq
       /\ Len(queue) < MaxQueue
       /\ SendUrgent(UrgentText(stats.enqueued + 1))
    \/ Drain
    \/ LoopHead
    \/ Check
    \/ Get
    \/ Combine
    \/ SendDone
    \/ Wake
    \/ Elapse(Stride)

\* The sender with stop() called at some moment by another thread.
NextStop ==
    \/ /\ stats.enqueued < MaxLiveEnq
       /\ Len(queue) < MaxQueue
       /\ SendUrgent(UrgentText(stats.enqueued + 1))
    \/ Stop
    \/ Drain
    \/ FinalDrain
    \/ LoopHead
    \/ Check
    \/ Get
    \/ Combine
    \/ SendDone
    \/ Wake
    \/ Elapse(Stride)

SpecStop ==
    /\ Init
    /\ [][NextStop]_vars
    /\ WF_vars(SenderStep \/ FinalDrain)
    /\ WF_vars(Elapse(Stride))

\* The sender through provider outages, with stop() called at some moment; the
\* traffic stays under the rate limit.
NextFail ==
    \/ /\ stats.enqueued < MaxFailEnq
       /\ SendUrgent(UrgentText(stats.enqueued + 1))
    \/ Stop
    \/ Drain
    \/ FinalDrain
    \/ LoopHead
    \/ Check
    \/ Get
    \/ SendDone
    \/ ProviderFail
    \/ ProviderRecover

SpecFail ==
    /\ Init
    /\ [][NextFail]_vars
    /\ WF_vars(SenderStep \/ FinalDrain)

SpecLive ==
    /\ Init
    /\ [][NextLive]_vars
    /\ WF_vars(SenderStep)
    /\ WF_vars(Elapse(Stride))

\* The facade with its credential checks, under light traffic: the rate limit
\* is not reached, so the sender never sleeps or combines here.
NextApi ==
    \/ \E m \in Alerts : stats.added < MaxSends /\ SendMessage(m)
    \/ /\ stats.enqueued < MaxApiEnq
       /\ SendUrgent(UrgentText(stats.enqueued + 1))
    \/ \E op \in {"verify", "test"} :
          /\ op = "test" => stats.enqueued < MaxApiEnq
          /\ VerifyBegin(op)
    \/ GetMeDone
    \/ \E t \in timers : TimerExpire(t)
    \/ \E t \in timers : Flush(t)
    \/ Drain
    \/ LoopHead
    \/ Check
    \/ Get
    \/ SendDone
    \/ ProviderFail
    \/ ProviderRecover
    \/ NextEvents # {} /\ now + NextDelay <= MaxApiTime /\ Tick(NextDelay)

SpecApi == Init /\ [][NextApi]_vars

\* BurstBuffer.__init__ and set_flush_callback with a callback that records
InitBurst ==
    /\ now = 0
    /\ groups = <<>>
    /\ silence_timer = 0
    /\ max_timer = 0
    /\ timers = {}
    /\ on_flush = "record"
    /\ flushed = <<>>
    /\ burst = NoBurst
    /\ queue = <<>>
    /\ sent_ts = <<>>
    /\ pc = "off"
    /\ inflight = NoAttempt
    /\ wake = 0
    /\ provider = [state |-> "up", outages |-> 0]
    /\ stats = [enqueued |-> 0, delivered |-> 0, dropped |-> 0, added |-> 0]
    /\ ret = NoCall
    /\ fp_in = <<>>
    /\ fp_out = <<>>
    /\ NoFacade
    /\ NoGridLog
    /\ NoChecker

NextBurst ==
    \/ \E m \in Alerts :
          /\ BufferSize(groups) < MaxBuf
          /\ \/ BufferSize(groups) < MaxVaried
             \/ groups # <<>> /\ m = burst.msg /\ now = EpochLast(groups) + 1
          /\ Add(m)
    \/ \E t \in timers : TimerExpire(t)
    \/ \E t \in timers : Flush(t)
    \/ Collect
    \/ now < MaxBurstTime /\ Tick(1)

SpecBurst == InitBurst /\ [][NextBurst]_vars

\* A BurstBuffer whose owner may call cancel() at any moment.
NextCancel ==
    \/ \E m \in Alerts : BufferSize(groups) < MaxVaried /\ Add(m)
    \/ Cancel
    \/ \E t \in timers : TimerExpire(t)
    \/ \E t \in timers : Flush(t)
    \/ Collect
    \/ now < MaxCancelTime /\ Tick(1)

SpecCancel == InitBurst /\ [][NextCancel]_vars

InitFp ==
    /\ now = 0
    /\ groups = <<>>
    /\ silence_timer = 0
    /\ max_timer = 0
    /\ timers = {}
    /\ on_flush = "none"
    /\ flushed = <<>>
    /\ burst = NoBurst
    /\ queue = <<>>
    /\ sent_ts = <<>>
    /\ pc = "off"
    /\ inflight = NoAttempt
    /\ wake = 0
    /\ provider = [state |-> "up", outages |-> 0]
    /\ stats = [enqueued |-> 0, delivered |-> 0, dropped |-> 0, added |-> 0]
    /\ ret = NoCall
    /\ fp_in \in FpParams \X FpParams
    /\ fp_out = <<>>
    /\ NoFacade
    /\ NoGridLog
    /\ NoChecker

NextFp == FpCompute

SpecFp == InitFp /\ [][NextFp]_vars

\* AlertChecker.__init__, some time after the epoch: no pair was ever emitted
\* (-1), the clock is past the first cooldown.
InitCooldown ==
    /\ now = Secs(cooldown_seconds)
    /\ groups = <<>>
    /\ silence_timer = 0
    /\ max_timer = 0
    /\ timers = {}
    /\ on_flush = "none"
    /\ flushed = <<>>
    /\ burst = NoBurst
    /\ queue = <<>>
    /\ sent_ts = <<>>
    /\ pc = "off"
    /\ inflight = NoAttempt
    /\ wake = 0
    /\ provider = [state |-> "up", outages |-> 0]
    /\ stats = [enqueued |-> 0, delivered |-> 0, dropped |-> 0, added |-> 0]
    /\ ret = NoCall
    /\ fp_in = <<>>
    /\ fp_out = <<>>
    /\ NoFacade
    /\ NoGridLog
    /\ cooldowns = <<>>
    /\ emitted = [calls |-> 0, op |-> "none", arg |-> "", fired |-> <<>>, out |-> <<>>,
                  last |-> [p \in Pairs |-> -1]]
    /\ rule_in = <<>>
    /\ rule_out = <<>>

\* The polling loop's calls to check_all_alerts as time passes.
NextCooldown ==
    \/ \E alerts \in Batches : emitted.calls < MaxCalls /\ CheckAllAlerts(alerts)
    \/ now + HalfCooldown <= MaxCkTime /\ Tick(HalfCooldown)

SpecCooldown == InitCooldown /\ [][NextCooldown]_vars

\* The same with the registry cleared by its owner at any moment.
NextRegistry ==
    \/ NextCooldown
    \/ \E u \in Users \cup {"None"} : ClearCooldowns(u)

SpecRegistry == InitCooldown /\ [][NextRegistry]_vars

\* AlertService._init_components some time after the epoch: a client and a
\* checker.
InitService ==
    /\ now = Secs(cooldown_seconds)
    /\ groups = <<>>
    /\ silence_timer = 0
    /\ max_timer = 0
    /\ timers = {}
    /\ on_flush = "enqueue"
    /\ flushed = <<>>
    /\ burst = NoBurst
    /\ queue = <<>>
    /\ sent_ts = <<>>
    /\ pc = "idle"
    /\ inflight = NoAttempt
    /\ wake = 0
    /\ provider = [state |-> "up", outages |-> 0]
    /\ stats = [enqueued |-> 0, delivered |-> 0, dropped |-> 0, added |-> 0]
    /\ ret = NoCall
    /\ fp_in = <<>>
    /\ fp_out = <<>>
    /\ NoFacade
    /\ NoGridLog
    /\ cooldowns = <<>>
    /\ emitted = [calls |-> 0, op |-> "none", arg |-> "", fired |-> <<>>, out |-> <<>>,
                  last |-> [p \in Pairs |-> -1]]
    /\ rule_in = <<>>
    /\ rule_out = <<>>

\* Evaluation cycles over persistent breaches, the client delivering what they
\* produce through an outage. The rate limit is not reached here.
NextService ==
    \/ \E p \in Breaches : emitted.calls < MaxCycles /\ Cycle(p)
    \/ \E t \in timers : TimerExpire(t)
    \/ \E t \in timers : Flush(t)
    \/ Drain
    \/ LoopHead
    \/ Check
    \/ Get
    \/ SendDone
    \/ ProviderFail
    \/ ProviderRecover
    \/ NextEvents # {} /\ now + NextDelay <= MaxSvcTime /\ Tick(NextDelay)
    \/ NextEvents = {} /\ now + HalfCooldown <= MaxSvcTime /\ Tick(HalfCooldown)

SpecService == InitService /\ [][NextService]_vars

\* A fresh AlertChecker some time after the epoch, with the summaries and the
\* settings of one scenario.
InitRules ==
    /\ now = Secs(cooldown_seconds)
    /\ groups = <<>>
    /\ silence_timer = 0
    /\ max_timer = 0
    /\ timers = {}
    /\ on_flush = "none"
    /\ flushed = <<>>
    /\ burst = NoBurst
    /\ queue = <<>>
    /\ sent_ts = <<>>
    /\ pc = "off"
    /\ inflight = NoAttempt
    /\ wake = 0
    /\ provider = [state |-> "up", outages |-> 0]
    /\ stats = [enqueued |-> 0, delivered |-> 0, dropped |-> 0, added |-> 0]
    /\ ret = NoCall
    /\ fp_in = <<>>
    /\ fp_out = <<>>
    /\ NoFacade
    /\ NoGridLog
    /\ cooldowns = <<>>
    /\ emitted = <<>>
    /\ rule_in \in { RuleInput(sc) : sc \in Scenarios }
    /\ rule_out = [calls |-> 0, fired |-> <<>>, out |-> <<>>]

NextRules == Evaluate

SpecRules == InitRules /\ [][NextRules]_vars

\* The sender under light traffic while the owner of the client asks for its
\* status. The clock moves by just over a rate-limit window at a time, and not
\* while a thread is inside _clean_old_timestamps (a scan of microseconds).
NextStatus ==
    \/ /\ stats.enqueued < MaxStatusEnq
       /\ SendUrgent(UrgentText(stats.enqueued + 1))
    \/ Drain
    \/ LoopTest
    \/ CleanTest
    \/ CleanPop
    \/ Check
    \/ Get
    \/ SendDone
    \/ StatusBegin
    \/ StatusTest
    \/ StatusPop
    \/ ~Cleaning /\ now + Stride + 1 <= MaxStatusTime /\ Tick(Stride + 1)

SpecStatus == Init /\ [][NextStatus]_vars

\* A timer thread's wait ends when it is due.
TimerFires == \E t \in timers : TimerExpire(t)

\* A timer thread whose wait has ended leaves _flush and ends: the steps of
\* Flush, told by what they do to the set of threads (a fired thread is gone
\* and none is new). Enabled exactly while a fired thread exists.
TimerThreadEnds ==
    \E t \in timers : t.fired /\ \E T \in SUBSET (timers \ {t}) : timers' = T

\* Time passes while a timer is armed.
Pass == timers # {} /\ Tick(1)

\* The client under send_message traffic, cancel() never called: timers fire
\* when due and their threads run, time passes, the sender delivers.
NextPipe ==
    \/ \E m \in Alerts : stats.added < MaxPipeSends /\ SendMessage(m)
    \/ TimerFires
    \/ \E t \in timers : Flush(t)
    \/ Pass
    \/ Drain
    \/ LoopHead
    \/ Check
    \/ Get
    \/ SendDone

SpecPipe ==
    /\ Init
    /\ [][NextPipe]_vars
    /\ WF_vars(TimerFires)
    /\ WF_timers(TimerThreadEnds)
    /\ WF_vars(Pass)

\* The client until and after close(): send_message and send_urgent are called
\* only before close(); timer threads and the sender run on after it.
NextClose ==
    \/ \E m \in Alerts : ~stop_event /\ stats.added < MaxSends /\ SendMessage(m)
    \/ /\ ~stop_event
       /\ stats.enqueued < MaxEnq
       /\ Len(queue) < MaxQueue
       /\ SendUrgent(UrgentText(stats.enqueued + 1))
    \/ Close
    \/ TimerFires
    \/ \E t \in timers : Flush(t)
    \/ Drain
    \/ FinalDrain
    \/ LoopHead
    \/ Check
    \/ Get
    \/ Combine
    \/ SendDone
    \/ Wake
    \/ NextEvents # {} /\ now + NextDelay <= MaxClientTime /\ Tick(NextDelay)

SpecClose == Init /\ [][NextClose]_vars

\* The grid-log cycle of AlertService beside the log writer and the calendar.
NextGrid ==
    \/ \E role \in {"row", "partial", "blank", "continuation"} : WriterAppend(role)
    \/ DateChange
    \/ CheckGridLogAlerts
    \/ SendGridAlert

SpecGrid == Init /\ [][NextGrid]_vars

---------------------------------------------------------------------------
(* Properties                                                              *)

\* The deliveries recorded in ts from the i-th on that fall less than one
\* rate-limit window after the i-th.
InWindowFrom(ts, i) ==
    { j \in i..Len(ts) : ts[j] < ts[i] + Secs(RATE_LIMIT_WINDOW) }

\* C1: in every reachable state of the sender, the send-completion timestamps
\* recorded in _sent_ts that fall inside any interval of RATE_LIMIT_WINDOW
\* seconds number at most RATE_LIMIT_MAX, whether they were recorded by the
\* normal path of _drain_once or by _send_combined_backlog.
C1_RateLimitRespected ==
    \A i \in 1..Len(sent_ts) : Cardinality(InWindowFrom(sent_ts, i)) <= RATE_LIMIT_MAX

\* The first place at or after from where part occurs in text, 0 if none.
Find(text, part, from) ==
    LET hits == { i \in from..(Len(text) - Len(part) + 1) :
                    SubSeq(text, i, i + Len(part) - 1) = part }
    IN  IF hits = {} THEN 0 ELSE CHOOSE i \in hits : \A j \in hits : i <= j

\* The lines of a text that does not end in a line break.
LinesOf(text) ==
    LET breaks == { i \in 1..Len(text) : text[i] = NL }
        cut(k) == IF k = 0 THEN 0
                  ELSE IF k > Cardinality(breaks) THEN Len(text) + 1
                  ELSE CHOOSE i \in breaks : Cardinality({ j \in breaks : j < i }) = k - 1
    IN  [k \in 1..(Cardinality(breaks) + 1) |->
            SubSeq(text, cut(k - 1) + 1, cut(k) - 1)]

IsPrefix(a, b) == Len(a) <= Len(b) /\ SubSeq(b, 1, Len(a)) = a

\* text holds the numbered items of q one after the other, from place from on.
RECURSIVE ItemsInOrder(_, _, _, _)
ItemsInOrder(text, q, k, from) ==
    IF k > Len(q) THEN TRUE
    ELSE LET item == <<"[">> \o Digits(k) \o <<"]", " ">> \o q[k]
             at   == Find(text, item, from)
         IN  at > 0 /\ ItemsInOrder(text, q, k + 1, at + Len(item))

\* _sent_ts holds RATE_LIMIT_MAX timestamps or more and the oldest has not expired.
LimitHolds ==
    /\ Len(sent_ts) >= RATE_LIMIT_MAX
    /\ sent_ts[1] + Secs(RATE_LIMIT_WINDOW) > now

C4_NoAlertLost ==
    stats.enqueued = Len(queue) + inflight.n + stats.delivered

\* C4, amended: a message the sender takes from the queue is attempted once; if
\* the attempt fails the message is discarded, not put back.  Every enqueued
\* message is queued, in flight, delivered or dropped, and the queue holds the
\* most recently enqueued messages in enqueue order; an outage keeps only the
\* messages the sender has not yet taken from the queue.
C4_AttemptedOnceThenDropped ==
    /\ stats.enqueued = Len(queue) + inflight.n + stats.delivered + stats.dropped
    /\ \A i \in 1..Len(queue) :
          queue[i] = UrgentText(stats.enqueued - Len(queue) + i)
    /\ (provider.outages = 0 /\ pc # "send") => stats.dropped = 0

\* An outage has ended, messages were dropped in it, a later one was delivered
\* and nothing is left to send.
C4_Witness ==
    /\ provider.state = "up"
    /\ provider.outages > 0
    /\ stats.dropped > 0
    /\ stats.delivered > 0
    /\ queue = <<>>
    /\ pc = "idle"
    /\ sent_ts # <<>>
    /\ sent_ts[Len(sent_ts)] = now
    /\ now > 0

\* The limit holds and fewer than COMBINE_THRESHOLD messages wait.
Held == LimitHolds /\ Len(queue) < COMBINE_THRESHOLD

\* The sender is not in the middle of a dispatch.
Quiet == pc \in {"idle", "loop", "check", "sleep"}

\* C5: while _sent_ts holds RATE_LIMIT_MAX timestamps younger than
\* RATE_LIMIT_WINDOW and fewer than COMBINE_THRESHOLD messages are queued, the
\* sender neither takes a message from the queue nor starts a delivery: the queue
\* only grows, _sent_ts stays as it is and no attempt is begun; the only attempt
\* that can be in flight then is a combined backlog taken at the threshold.
C5_HeldAtLimit ==
    [][ Held => /\ pc \notin {"get", "combine"}
                /\ pc = "send" => inflight.kind = "combined"
                /\ Quiet => /\ IsPrefix(queue, queue')
                            /\ sent_ts' = sent_ts
                            /\ inflight' = NoAttempt
                            /\ pc' \in {"idle", "loop", "check", "sleep"}
      ]_vars

\* The sender sleeps at the limit with a message waiting.
C5_Witness ==
    /\ Held
    /\ pc = "sleep"
    /\ queue # <<>>
    /\ wake > now

\* C10: send_message returns True in every state, whatever the queue depth, the
\* rate-limit state or the provider's availability, and its only effect is on
\* the BurstBuffer: one entry more in a group and both timers armed; the
\* outbound queue, _sent_ts and the sender's delivery attempt are as before.
C10_SendMessageOnlyBuffers ==
    [][ stats'.added # stats.added
          => /\ ret' = [op |-> "send_message", value |-> TRUE]
             /\ BufferSize(groups') = BufferSize(groups) + 1
             /\ silence_timer' # 0 /\ max_timer' # 0
             /\ \E t \in timers' : t.id = silence_timer' /\ ~t.fired
             /\ queue' = queue
             /\ sent_ts' = sent_ts
             /\ inflight' = inflight
             /\ pc' = pc
             /\ stats'.enqueued = stats.enqueued
      ]_vars

\* send_message has returned True at the rate limit, with a message waiting in
\* the queue and the provider down; its text is in the buffer.
C10_Witness ==
    /\ ret = [op |-> "send_message", value |-> TRUE]
    /\ groups # <<>>
    /\ LimitHolds
    /\ queue # <<>>
    /\ provider.state = "down"

\* A step of _flush that empties a buffer that held messages.
Flushing == groups # <<>> /\ groups' = <<>>

\* C2: K >= 1 messages of one fingerprint, each arriving less than
\* SILENCE_SECONDS after the one before and all within MAX_WAIT_SECONDS of the
\* first, come out of the buffer as exactly one message that covers all K, in
\* every epoch.  Stated for the run of messages that opens an epoch: no second
\* output is produced for it, and once a part of it has been flushed no later
\* message of the run waits in the buffer for another one.
C2_OneOutputPerBurst ==
    burst.fresh => burst.outs + (IF burst.pending > 0 THEN 1 ELSE 0) <= 1

\* The arrival times of the buffered messages.
Arrivals(g) == { e[1] : e \in AllEntries(g) }

\* Every buffered message but the first arrived less than SILENCE_SECONDS after
\* another one, and the latest arrived when a silence timer started at the
\* first could no longer end before the max-wait timer.
Steady(g) ==
    /\ \A t \in Arrivals(g) :
          t = EpochFirst(g) \/ \E u \in Arrivals(g) : u < t /\ t - u < SILENCE_SECONDS
    /\ EpochLast(g) - EpochFirst(g) > MAX_WAIT_SECONDS - SILENCE_SECONDS

\* C6: the flush of an epoch is never later than MAX_WAIT_SECONDS after the
\* epoch's first add, and an epoch in which messages kept arriving less than
\* SILENCE_SECONDS apart until the max-wait timer ended is flushed exactly
\* MAX_WAIT_SECONDS after its first message.
C6_MaxWaitBound ==
    [][ /\ groups # <<>> => now <= EpochFirst(groups) + MAX_WAIT_SECONDS
        /\ (Flushing /\ Steady(groups)) => now = EpochFirst(groups) + MAX_WAIT_SECONDS
      ]_vars

\* A steady stream has just been flushed, MAX_WAIT_SECONDS after its first message.
C6_Witness ==
    /\ flushed # <<>>
    /\ groups = <<>>
    /\ burst.fresh
    /\ burst.pending = 0
    /\ burst.last - burst.first > MAX_WAIT_SECONDS - SILENCE_SECONDS
    /\ now = burst.first + MAX_WAIT_SECONDS

\* C7: a message added to a buffer that holds no groups and followed by no
\* further add is flushed exactly SILENCE_SECONDS after its arrival, neither
\* earlier nor later, in every epoch.
C7_IsolatedAfterSilence ==
    [][ (Flushing /\ BufferSize(groups) = 1)
          => now = EpochFirst(groups) + SILENCE_SECONDS ]_vars

\* The lines of a summary that begin a bullet.
BulletLines(lines) == SelectSeq(lines, LAMBDA l : IsPrefix(BULLET, l))

\* The detail a bullet shows of a message: its issue, or else its metric.
Detail(message) ==
    IF ExtractField(message, <<"Issue", ":">>) # <<>>
    THEN ExtractField(message, <<"Issue", ":">>)
    ELSE ExtractField(message, <<"Metric", ":">>)

\* out is what the flush of a group with these entries has to be.
GroupOutputOk(entries, out) ==
    IF Len(entries) = 1 THEN out = entries[1][2]
    ELSE LET lines   == LinesOf(out)
             bullets == BulletLines(lines)
         IN  /\ Len(lines) >= 3
             /\ Find(lines[1], Digits(Len(entries)) \o <<" ", "alerts">>, 1) > 0
             /\ lines[2] = LinesOf(entries[1][2])[2]
             /\ Len(bullets) = Len(entries)
             /\ \A k \in 1..Len(entries) :
                   Find(bullets[k], Detail(entries[k][2]), 1) > 0

\* C8: on flush a group of one message gives that message unchanged, and a
\* group of N > 1 messages gives one summary whose header states the count N,
\* whose second line is the identity line of the group's first message and
\* which holds one bullet per buffered message, in arrival order; the batch has
\* one output per group.
C8_FlushOutputs ==
    [][ Flushing => /\ Len(flushed') = Len(groups)
                    /\ \A k \in 1..Len(groups) :
                          GroupOutputOk(groups[k].entries, flushed'[k])
      ]_vars

\* A summary of two different alerts of one user, the later one repeated, has
\* been flushed: the bullet of the first alert comes first.
C8_Witness ==
    /\ Len(flushed) = 1
    /\ flushed[1] \notin Alerts
    /\ Len(BulletLines(LinesOf(flushed[1]))) >= 3
    /\ Find(flushed[1], <<"P1">>, 1) > 0
    /\ Find(flushed[1], <<"P1">>, 1) < Find(flushed[1], <<"P2">>, 1)

\* The header of an alert without its time, and its second line, as the
\* producer wrote them.
HeaderOf(p) == IF IsGrid(p) THEN p.type ELSE p.category

IdentityOf(p) == MessageLines(p)[2]

\* C9: two messages have the same fingerprint if and only if their header
\* lines without the '@ HH:MM:SS' token are equal and their second lines are
\* equal; messages that differ only in the header time, or only in a portfolio
\* line that follows the identity line, collapse.
C9_FingerprintIff ==
    fp_out # <<>> =>
        LET p == fp_in[1]
            q == fp_in[2]
        IN  /\ (fp_out[1] = fp_out[2])
                  <=> (HeaderOf(p) = HeaderOf(q) /\ IdentityOf(p) = IdentityOf(q))
            /\ (IsGrid(p) /\ IsGrid(q) /\ p.user # <<>>
                  /\ [p EXCEPT !.portfolio = <<>>, !.time = <<>>]
                       = [q EXCEPT !.portfolio = <<>>, !.time = <<>>])
                  => fp_out[1] = fp_out[2]

\* Two alerts of one user that differ in time and portfolio have one fingerprint.
C9_Witness ==
    /\ fp_out # <<>>
    /\ fp_out[1] = fp_out[2]
    /\ IsGrid(fp_in[1]) /\ IsGrid(fp_in[2])
    /\ fp_in[1].user # <<>>
    /\ fp_in[1].portfolio # fp_in[2].portfolio
    /\ fp_in[1].time # fp_in[2].time


---------------------------------------------------------------------------
(* Where the network calls are made                                        *)

\* A delivery attempt (_send_sync) is in progress on the sender thread.
Delivering == pc = "send"

\* A getMe request is in progress on the thread that called the facade.
Verifying == call # "none"

\* C11 as stated: no network call is ever executed on the thread that called a
\* facade method, so no caller is ever inside the getMe request.
C11_NoNetworkCallOnCaller == ~Verifying

\* C11, amended: deliveries are made by the sender thread only (an attempt begins
\* when the sender takes its text from the queue and its outcome is recorded by
\* the sender's own step); send_message and send_urgent make no network call; a
\* step that works on the buffer under its lock neither starts nor ends a
\* network call; the only network call on a caller's thread is the getMe request
\* of verify_connection and test_connection, which the caller waits for.
C11_NetworkCallsPlaced ==
    [][ /\ (inflight' # inflight /\ inflight' # NoAttempt)
            => (pc \in {"get", "combine"} /\ Delivering')
        /\ (stats'.delivered # stats.delivered \/ stats'.dropped # stats.dropped
              \/ Len(sent_ts') > Len(sent_ts))
            => (Delivering /\ ~Delivering')
        /\ (stats'.added # stats.added \/ stats'.enqueued # stats.enqueued)
            => (pc' = pc /\ inflight' = inflight /\ call' \in {call, "none"})
        /\ (bufVars' # bufVars)
            => (call' = call /\ pc' = pc /\ inflight' = inflight)
        /\ (call' # call)
            => (/\ call \in {"none", "verify", "test"}
                /\ call' \in {"none", "verify", "test"}
                /\ pc' = pc
                /\ bufVars' = bufVars) ]_vars

\* A caller waits for its getMe request while the sender is delivering and the
\* buffer holds a message.
C11_Witness == Verifying /\ Delivering /\ groups # <<>>


---------------------------------------------------------------------------
(* send_urgent                                                             *)

\* A step in which send_urgent put a message on the queue: the count of enqueued
\* messages grows by one, and the step is neither a flush (which empties the
\* groups) nor the return of test_connection.
SendUrgentStep ==
    /\ stats'.enqueued = stats.enqueued + 1
    /\ ret'.op = "send_urgent"
    /\ call' = call
    /\ ~(groups # <<>> /\ groups' = <<>>)

\* C12: send_urgent appends its text to the sender queue and returns True, and
\* leaves the burst buffer as it was: no group is made or changed and no timer
\* is armed, reset or cancelled.
C12_SendUrgentBypassesBuffer ==
    [][ SendUrgentStep =>
          /\ queue' = Append(queue, UrgentText(stats.enqueued + 1))
          /\ ret'.value = TRUE
          /\ groups' = groups
          /\ silence_timer' = silence_timer
          /\ max_timer' = max_timer
          /\ timers' = timers ]_vars

\* send_urgent has just returned while the buffer holds a group with both of its
\* timers armed.
C12_Witness ==
    /\ ret.op = "send_urgent"
    /\ queue # <<>>
    /\ queue[Len(queue)] = UrgentText(stats.enqueued)
    /\ groups # <<>>
    /\ silence_timer # 0
    /\ max_timer # 0


---------------------------------------------------------------------------
(* verify_connection and test_connection                                   *)

\* A step in which verify_connection or test_connection returns.
VerifyReturns == call # "none" /\ call' = "none"

\* C13: verify_connection never enqueues; test_connection puts exactly one test
\* message on the sender queue, not in the buffer, exactly when the check
\* succeeded; a failed check returns (False, None) and leaves the queue and the
\* buffer as they were.
C13_VerifyAndTest ==
    [][ VerifyReturns =>
          /\ ret'.op = call
          /\ ret'.value \in {<<TRUE, "bot">>, <<FALSE, "None">>}
          /\ ret'.value[1] <=> (provider.state = "up")
          /\ bufVars' = bufVars
          /\ call = "verify" => queue' = queue
          /\ (call = "test" /\ ret'.value[1]) => queue' = Append(queue, TestMessage)
          /\ ~ret'.value[1] => queue' = queue ]_vars

\* test_connection has returned success with its test message last on a queue
\* that held another message, beside a buffer holding a group.
C13_Witness ==
    /\ ret.op = "test"
    /\ ret.value[1]
    /\ Len(queue) >= 2
    /\ queue[Len(queue)] = TestMessage
    /\ groups # <<>>


---------------------------------------------------------------------------
(* BurstBuffer.cancel                                                      *)

\* cancel() has returned and add() has not been called since: messages are held
\* and neither timer handle is set (add sets the silence handle; a flush empties
\* the groups).
Cancelled == groups # <<>> /\ silence_timer = 0 /\ max_timer = 0

\* C14: after cancel() has returned, and until add() is called again, _groups is
\* not changed and the flush callback is not invoked, whatever the timers were
\* doing when cancel() ran.
C14_CancelStopsFlush ==
    [][ Cancelled =>
          \/ groups' = groups /\ (flushed' = flushed \/ flushed' = <<>>)
          \/ BufferSize(groups') = BufferSize(groups) + 1 /\ silence_timer' # 0 ]_vars


---------------------------------------------------------------------------
(* Every enqueued message is attempted                                     *)

\* The messages taken from the queue so far: delivered, dropped, or in the
\* attempt in progress.
Attempted == stats.delivered + stats.dropped + inflight.n

\* C15: enqueue neither blocks nor rejects nor discards (the message is appended
\* whatever the queue holds and the call returns True), and while the sender
\* thread runs and time passes every enqueued message is taken from the queue and
\* has a delivery attempted: again and again everything enqueued so far has been
\* attempted.
C15_EveryMessageAttempted ==
    /\ [][ stats'.enqueued # stats.enqueued =>
              /\ queue' = Append(queue, UrgentText(stats.enqueued + 1))
              /\ ret'.value = TRUE ]_vars
    /\ []<>(Attempted = stats.enqueued)

\* Every message has been attempted although the rate limit was reached while
\* some of them waited: the last ones were sent after older timestamps left the
\* window, the sender having slept in between.
C15_Witness ==
    /\ stats.enqueued = MaxLiveEnq
    /\ Attempted = stats.enqueued
    /\ inflight = NoAttempt
    /\ stats.delivered > RATE_LIMIT_MAX
    /\ stats.dropped = 0
    /\ Len(sent_ts) < stats.delivered


---------------------------------------------------------------------------
(* Shutdown of the sender                                                  *)

\* A step in which run() calls _drain_once.
PassBegins == pc = "idle" /\ pc' = "loop"

\* C16: once stop() has set the flag, and with every delivery attempt returning
\* and producers ceasing to enqueue, the loop sees the flag, makes exactly one
\* more _drain_once pass, the final drain, and the thread ends: no pass begins
\* after the final one, the thread ends only after it, and it does end.
C16_StopTerminates ==
    /\ [][ (PassBegins /\ stop_event) => (~final /\ final') ]_vars
    /\ [][ final => (final' /\ ~(PassBegins /\ pc' # pc)) ]_vars
    /\ [][ pc = "done" => pc' = "done" ]_vars
    /\ [](pc = "done" => (final /\ stop_event /\ inflight = NoAttempt))
    /\ stop_event ~> (pc = "done")

\* The thread has ended after a final drain that found the rate limit reached
\* and returned with messages still on the queue.
C16_Witness ==
    /\ pc = "done"
    /\ Len(sent_ts) >= RATE_LIMIT_MAX
    /\ queue # <<>>


---------------------------------------------------------------------------
(* Order of delivery                                                       *)

\* The messages whose attempt has ended, delivered or not.
Done == stats.delivered + stats.dropped

\* C17: messages reach the provider in queue order: a message sent alone is the
\* oldest one not yet attempted, a combined message holds the oldest ones not yet
\* attempted as its numbered entries in queue order, and the messages that wait
\* are the ones enqueued after them, in order.
C17_QueueOrder ==
    /\ inflight.kind = "single" => inflight.text = UrgentText(Done + 1)
    /\ inflight.kind = "combined" =>
          inflight.text = CombinedText([i \in 1..inflight.n |-> UrgentText(Done + i)])
    /\ \A i \in 1..Len(queue) : queue[i] = UrgentText(Done + inflight.n + i)

\* A combined message of five or more entries is on its way after the single
\* messages enqueued before them were sent.
C17_Witness ==
    /\ inflight.kind = "combined"
    /\ inflight.n >= COMBINE_THRESHOLD
    /\ Done >= RATE_LIMIT_MAX


---------------------------------------------------------------------------
(* The cooldown gate                                                       *)

\* How often pair p occurs in a list of alerts.
Count(alerts, p) == Cardinality({ i \in 1..Len(alerts) : alerts[i] = p })

\* A step in which check_all_alerts is called.
CheckStep == emitted'.calls = emitted.calls + 1

\* Pair p was never emitted, or was last emitted a cooldown or more ago.
Due(p) == emitted.last[p] = -1 \/ now - emitted.last[p] >= Secs(cooldown_seconds)

\* C18: for every pair whose rule fires in a call, the alert is emitted at most
\* once, is emitted only when the pair's last emitted alert is a full cooldown
\* or more in the past, and is emitted whenever that is so: no two emitted
\* alerts of a pair are less than cooldown_seconds apart.
C18_CooldownGate ==
    [][ CheckStep =>
          \A p \in Pairs :
             /\ Count(emitted'.out, p) <= 1
             /\ Count(emitted'.out, p) = 1 => (Count(emitted'.fired, p) >= 1 /\ Due(p))
             /\ (Count(emitted'.fired, p) >= 1 /\ Due(p)) => Count(emitted'.out, p) = 1
      ]_vars

\* One call, a full cooldown after the first, emits a pair again and suppresses
\* another pair that was emitted half a cooldown ago.
C18_Witness ==
    /\ emitted.calls >= 3
    /\ now >= 2 * Secs(cooldown_seconds)
    /\ \E p \in Pairs, q \in Pairs :
          /\ Count(emitted.fired, p) = 1 /\ Count(emitted.out, p) = 1
          /\ Count(emitted.fired, q) = 1 /\ Count(emitted.out, q) = 0
          /\ emitted.last[q] = now - HalfCooldown

\* C19: a suppressed alert leaves the registry as it was: in a call, the stored
\* time of a pair that is not emitted does not change and no entry appears for
\* it, the stored time of an emitted pair becomes the time of the call, and so
\* the registry always holds, for each pair, the time it was last emitted,
\* however many attempts were suppressed since.
C19_SuppressedKeepsRegistry ==
    /\ [][ CheckStep =>
              /\ \A p \in Pairs :
                    IF Count(emitted'.out, p) = 0
                    THEN LastTrigger(cooldowns', p[1], p[2]) = LastTrigger(cooldowns, p[1], p[2])
                    ELSE LastTrigger(cooldowns', p[1], p[2]) = now
              /\ emitted'.out = <<>> => cooldowns' = cooldowns ]_vars
    /\ [](\A p \in Pairs :
             LastTrigger(cooldowns, p[1], p[2]) =
                 IF emitted.last[p] = -1 THEN 0 ELSE emitted.last[p])

\* Half a cooldown after its last emitted alert a pair fired twice in one call
\* and was suppressed both times, and the registry still holds the time of that
\* alert.
C19_Witness ==
    /\ emitted.calls >= 3
    /\ \E p \in Pairs :
          /\ Count(emitted.fired, p) = 2
          /\ Count(emitted.out, p) = 0
          /\ LastTrigger(cooldowns, p[1], p[2]) = now - HalfCooldown

\* A step in which clear_cooldowns is called.
ClearStep == emitted'.op = "clear" /\ now' = now

\* C20: the entries are independent: a call of check_all_alerts changes only the
\* entries of the pairs it emits and deletes none; clear_cooldowns(u) removes
\* exactly the entries of user u, for any alias u; clear_cooldowns() empties the
\* registry; nothing else changes it.
C20_EntriesIndependent ==
    [][ /\ CheckStep =>
              \A p \in Pairs :
                  /\ Count(emitted'.out, p) = 0 =>
                        LastTrigger(cooldowns', p[1], p[2]) = LastTrigger(cooldowns, p[1], p[2])
                  /\ p[1] \in DOMAIN cooldowns => p[1] \in DOMAIN cooldowns'
        /\ (ClearStep /\ emitted'.arg \in Users) =>
              cooldowns' = Restrict(cooldowns, DOMAIN cooldowns \ {emitted'.arg})
        /\ (ClearStep /\ emitted'.arg = "None") => cooldowns' = <<>>
        /\ (~CheckStep /\ ~ClearStep) => cooldowns' = cooldowns ]_vars


---------------------------------------------------------------------------
(* A persistent breach and a failed delivery                               *)

\* A step in which the evaluation cycle runs.
CycleStep == emitted'.calls = emitted.calls + 1

\* Every alert given to send_message so far was dropped by the sender: nothing
\* was delivered and nothing is still on its way.
AllDropped ==
    /\ stats.dropped >= 1
    /\ stats.delivered = 0
    /\ groups = <<>>
    /\ queue = <<>>
    /\ inflight = NoAttempt

\* C21 as stated: when the alert of a pair was dropped by the sender and the
\* breach still holds, the next evaluation cycle surfaces the alert of that pair
\* again.
C21_ResurfacedNextCycle ==
    [][ (CycleStep /\ AllDropped /\ emitted.last[emitted'.fired[1]] # -1)
          => emitted'.out = emitted'.fired ]_vars

\* C21, amended: the cooldown is started when the alert is emitted, whatever
\* becomes of its delivery. A cycle in which the rule of a pair fires surfaces
\* the alert (check_all_alerts returns it and it is given to send_message)
\* exactly when the pair's last emitted alert is a full cooldown or more in the
\* past; until then the cycles suppress it and send nothing, also when the
\* earlier alert was dropped.
C21_ResurfacedAfterCooldown ==
    [][ CycleStep =>
          LET p == emitted'.fired[1]
          IN  /\ (emitted'.out = <<p>>) <=> Due(p)
              /\ emitted'.out \in {<<>>, <<p>>}
              /\ emitted'.out = <<p>> =>
                    /\ stats'.added = stats.added + 1
                    /\ BufferSize(groups') = BufferSize(groups) + 1
                    /\ \E k \in 1..Len(groups') :
                          groups'[k].entries[Len(groups'[k].entries)] = <<now, BreachText(p)>>
              /\ emitted'.out = <<>> => (bufVars' = bufVars /\ stats' = stats)
              /\ queue' = queue ]_vars

\* The alert of a pair was dropped and nothing was delivered; a full cooldown
\* after it was first emitted a cycle has surfaced it again and it waits in the
\* buffer.
C21_Witness ==
    /\ stats.dropped >= 1
    /\ stats.delivered = 0
    /\ emitted.calls >= 3
    /\ emitted.out # <<>>
    /\ emitted.last[emitted.out[1]] = now
    /\ now >= 2 * Secs(cooldown_seconds)
    /\ groups # <<>>
    /\ stats.added = 2
    /\ \A q \in Pairs : q # emitted.out[1] => emitted.last[q] = -1


---------------------------------------------------------------------------
(* Delivery failures and the life of the sender                            *)

\* C22: a failed delivery neither ends the sender thread nor reaches a caller:
\* the step that records the failure leaves the thread in its loop (or, in the
\* final drain, at the end of run()) and changes no call's result; the thread
\* ends only after stop() was called; and as long as it has not ended, whatever
\* is enqueued, also after a failure, is attempted.
C22_FailureKeepsSenderRunning ==
    /\ [][ stats'.dropped # stats.dropped =>
              /\ pc' \in {"loop", "idle", "done"}
              /\ pc' = "done" => final
              /\ ret' = ret
              /\ call' = call ]_vars
    /\ [](pc = "done" => (stop_event /\ final))
    /\ []<>(Attempted = stats.enqueued \/ pc = "done")

\* Every earlier attempt failed and, stop() not having been called, the sender
\* is attempting the next message.
C22_Witness ==
    /\ stats.dropped = MaxFailEnq - 1
    /\ ~stop_event
    /\ pc = "send"
    /\ inflight.text = UrgentText(MaxFailEnq)

---------------------------------------------------------------------------
(* Rules without a threshold                                               *)

\* The alert types check_all_alerts returned for the user
Returned23(user_alias) ==
    { rule_out.out[i][2] : i \in { j \in 1..Len(rule_out.out) :
                                     rule_out.out[j][1] = user_alias } }

\* The threshold field of rule key for the user, as the settings hold it;
\* Absent when the user or the key has no entry
FieldOf(user_alias, key) ==
    LET map == IF key \in MtmRoiKeys THEN rule_in.mtm_roi
               ELSE IF key = "margin_above" THEN rule_in.margin ELSE rule_in.quantity
    IN  IF user_alias \notin DOMAIN map THEN Absent
        ELSE IF key = "margin_above" THEN map[user_alias]
        ELSE IF key \in DOMAIN map[user_alias] THEN map[user_alias][key]
        ELSE Absent

\* The user's rule key has no threshold: the field is absent, empty or blank,
\* the user has no entry in the category's map, or the category is disabled
Unset(user_alias, key) ==
    \/ ~rule_in.enabled[CategoryOf(key)]
    \/ FieldOf(user_alias, key) = Absent
    \/ Strip(FieldOf(user_alias, key)) = <<>>

\* C23: a rule whose threshold is absent, empty or whitespace-only for a user
\* yields no alert for that user whatever the metric is, and neither does a
\* rule of a category in whose map the user has no entry or that is disabled.
C23_NoThresholdNoAlert ==
    rule_out.calls = 1 =>
        \A key \in RuleKeys :
            Unset("FZ1", key) => key \notin Returned23("FZ1")

\* A blank sell-quantity threshold with three lots sold, in an evaluation that
\* does return alerts of other rules.
C23_Witness ==
    /\ rule_out.calls = 1
    /\ rule_in.enabled["quantity"]
    /\ FieldOf("FZ1", "calls_sell") = <<" ">>
    /\ rule_in.summaries[1].call_sell_qty = -MaxMetric
    /\ "puts_sell" \in Returned23("FZ1")
    /\ "calls_sell" \notin Returned23("FZ1")

\* A disabled category whose thresholds are exceeded, beside an enabled one.
C23_WitnessDisabled ==
    /\ rule_out.calls = 1
    /\ ~rule_in.enabled["mtm_roi"]
    /\ FieldOf("FZ1", "mtm_above") = <<"2">>
    /\ rule_in.summaries[1].live_pnl = MaxMetric
    /\ Returned23("FZ1") # {}

---------------------------------------------------------------------------
(* Sign conventions of the rules                                           *)

\* The metric rule key reads of summary s, as the rule compares it: ROI and
\* margin in whole percent (the summaries drawn give whole percentages), sell
\* and net quantities by their size, buy quantities as they are.
MetricOf(s, key) ==
    LET total == s.available_margin + s.utilized_margin
        roi   == IF s.utilized_margin > 0
                 THEN (s.live_pnl * 100) \div s.utilized_margin ELSE 0
    IN  CASE key \in {"mtm_above", "mtm_below"} -> s.live_pnl
          [] key \in {"roi_above", "roi_below"} -> roi
          [] key = "margin_above" -> IF total > 0
                                     THEN (s.utilized_margin * 100) \div total ELSE 0
          [] key = "calls_sell" -> Abs(s.call_sell_qty)
          [] key = "puts_sell"  -> Abs(s.put_sell_qty)
          [] key = "calls_net"  -> Abs(s.calls_net)
          [] key = "puts_net"   -> Abs(s.puts_net)
          [] key = "calls_buy"  -> s.call_buy_qty
          [] key = "puts_buy"   -> s.put_buy_qty

\* The limit the metric is compared with: the number entered, negated for
\* roi_below
LimitOf(key, entered) == IF key = "roi_below" THEN -entered ELSE entered

\* Rule key of FZ1 has a number for its threshold and its category is on
Armed(key) ==
    /\ ~Unset("FZ1", key)
    /\ Float(FieldOf("FZ1", key)).ok

C24_WitnessBuy ==
    /\ rule_out.calls = 1
    /\ FieldOf("FZ1", "calls_buy") = <<"2">>
    /\ rule_in.summaries[1].call_buy_qty = -MaxMetric
    /\ "calls_buy" \notin Returned23("FZ1")

---------------------------------------------------------------------------
(* Mutual exclusion on the sender's state                                  *)

\* C25: the sent-timestamp window is read and modified under mutual exclusion:
\* the sender and a caller of get_rate_limit_status or get_pending_count are
\* never both between the test and the popleft of _clean_old_timestamps.
C25_SentTsExclusive == ~(pc = "popleft" /\ call = "status_popleft")

\* What the missing exclusion costs: the popleft of the sender finds the deque
\* emptied by the caller and the thread ends with messages waiting.
C25_SenderSurvives == pc # "raised"

\* A timestamp that has not left the window is never removed.
C25_WindowKept ==
    [][\A i \in 1..Len(sent_ts) :
          sent_ts[i] >= now - Secs(RATE_LIMIT_WINDOW)
            => \E j \in 1..Len(sent_ts') : sent_ts'[j] = sent_ts[i]]_vars

---------------------------------------------------------------------------
(* The silence timer and the max-wait timer under add()                    *)

\* The step is a _flush run by timer thread t that empties the buffer.
FlushedBy(t) == Flushing /\ t \in timers /\ t.fired /\ t \notin timers'

\* The step is an add().
AddStep == BufferSize(groups') = BufferSize(groups) + 1

\* The timer the max-wait handle refers to, in the set T.
MaxTimerOf(T, handle) == { t \in T : t.id = handle /\ t.kind = "max" /\ ~t.fired }

\* First part: every add() leaves one silence timer waiting, due
\* SILENCE_SECONDS later, and no silence timer flushes pending groups before
\* SILENCE_SECONDS have passed since the most recent add().
C26_SilenceRestartedByAdd ==
    [][ /\ AddStep =>
            { t \in timers' : t.kind = "silence" /\ ~t.fired }
               = {[id |-> silence_timer', due |-> now + SILENCE_SECONDS,
                   fired |-> FALSE, kind |-> "silence"]}
        /\ \A t \in timers :
              (t.kind = "silence" /\ FlushedBy(t))
                 => now >= EpochLast(groups) + SILENCE_SECONDS ]_vars

\* Second part: the max-wait timer is armed by the add() that finds the
\* buffer empty, due MAX_WAIT_SECONDS later, and an add() to a buffer that
\* holds groups leaves the handle and the timer as they are.
C26_MaxTimerArmedOnce ==
    [][ AddStep =>
          IF groups = <<>>
          THEN MaxTimerOf(timers', max_timer')
                 = {[id |-> max_timer', due |-> now + MAX_WAIT_SECONDS,
                     fired |-> FALSE, kind |-> "max"]}
          ELSE /\ max_timer' = max_timer
               /\ \A t \in timers : t.kind = "max" => t \in timers' ]_vars

\* C26: every add(), of whatever fingerprint, cancels and re-arms the one
\* silence timer, so that no silence timer flushes pending groups before
\* SILENCE_SECONDS have passed since the most recent add(); the max-wait timer
\* is armed by the first add() of an epoch only and later add() calls of the
\* epoch neither re-arm nor extend it.
C26_TimersUnderAdd == C26_SilenceRestartedByAdd /\ C26_MaxTimerArmedOnce

\* A message of another fingerprint arrives while a group is pending and the
\* max-wait timer of the epoch still waits.
C26_Witness ==
    /\ Len(groups) = 2
    /\ now = EpochLast(groups)
    /\ EpochFirst(groups) < now
    /\ MaxTimerOf(timers, max_timer) # {}
    /\ \A t \in MaxTimerOf(timers, max_timer) : t.due = EpochFirst(groups) + MAX_WAIT_SECONDS

---------------------------------------------------------------------------
(* _flush on an empty buffer                                               *)

\* The step is a _flush run by timer thread t.
FlushStep(t) == t \in timers /\ t.fired /\ t \notin timers'

\* C27: a _flush that finds no groups ends without invoking the callback and
\* leaves _groups and both timer handles as they are (only its own thread is
\* gone); a _flush that finds groups hands them to the callback and empties
\* the buffer in the same step. So of two timers that fire for one epoch the
\* first to run hands the epoch's messages over and the second hands nothing.
C27_EmptyFlushNoOp ==
    [][ \A t \in timers : FlushStep(t) =>
          IF groups = <<>>
          THEN /\ groups' = <<>>
               /\ silence_timer' = silence_timer
               /\ max_timer' = max_timer
               /\ timers' = timers \ {t}
               /\ flushed' = flushed
          ELSE /\ groups' = <<>>
               /\ flushed' = FlushOutputs(groups) ]_vars

\* The silence timer and the max-wait timer of one epoch have both fired; the
\* silence thread has handed the epoch over and the batch has not been taken
\* yet; the max-wait thread is about to run _flush on the empty buffer.
C27_Witness ==
    /\ groups = <<>>
    /\ flushed # <<>>
    /\ \E t \in timers : t.fired /\ t.kind = "max" /\ t.due = now
    /\ \A t \in timers : ~(t.fired /\ t.kind = "silence")

---------------------------------------------------------------------------
(* A flush ends the epoch                                                  *)

\* The groups stand in the order in which their first messages arrived.
ByFirstArrival(g) ==
    \A j, k \in 1..Len(g) : j < k => g[j].entries[1][1] <= g[k].entries[1][1]

\* C28: a _flush that finds groups hands the callback one output per
\* fingerprint, in the order of the groups' first arrivals, each output
\* holding every message of its group once (the message itself, or one bullet
\* per message); nothing stays in _groups, both timer handles are None and no
\* timer of the epoch still waits; the add() that follows arms a new max-wait
\* timer, due MAX_WAIT_SECONDS after it.
C28_FlushEndsEpoch ==
    [][ /\ Flushing =>
            /\ ByFirstArrival(groups)
            /\ \A j, k \in 1..Len(groups) : j # k => groups[j].fp # groups[k].fp
            /\ Len(flushed') = Len(groups)
            /\ \A k \in 1..Len(groups) : GroupOutputOk(groups[k].entries, flushed'[k])
            /\ BufferSize(groups') = 0
            /\ silence_timer' = 0
            /\ max_timer' = 0
            /\ \A t \in timers' : t.fired
        /\ (AddStep /\ groups = <<>>) =>
            /\ max_timer # max_timer'
            /\ \E t \in timers' \ timers :
                  t = [id |-> max_timer', due |-> now + MAX_WAIT_SECONDS,
                       fired |-> FALSE, kind |-> "max"] ]_vars

\* Two groups, one of them of two messages, were flushed together and the
\* first message of the next epoch has arrived since: its max-wait timer waits.
C28_Witness ==
    /\ Len(flushed) = 2
    /\ \E k \in 1..2 : flushed[k] \notin Alerts
    /\ BufferSize(groups) = 1
    /\ now = EpochFirst(groups)
    /\ \E t \in timers : t.id = max_timer /\ ~t.fired /\ t.due = now + MAX_WAIT_SECONDS

---------------------------------------------------------------------------
(* Failed attempts and the quota                                           *)

\* The step ends a delivery attempt that failed.
AttemptFails == stats'.dropped # stats.dropped

\* The step begins a delivery attempt.
AttemptBegins == pc # "send" /\ pc' = "send"

\* C29: a delivery attempt that fails, of a single message or of a combined
\* backlog, leaves _sent_ts and the queue as they are and its messages are
\* gone; a timestamp is appended only by an attempt that succeeded; and no
\* message is attempted a second time: every attempt takes the messages that
\* follow, in enqueue order, the ones already delivered or dropped.
C29_FailureCostsNoQuota ==
    [][ /\ AttemptFails =>
            /\ sent_ts' = sent_ts
            /\ queue' = queue
            /\ inflight' = NoAttempt
            /\ stats'.dropped = stats.dropped + inflight.n
            /\ stats'.delivered = stats.delivered
        /\ Len(sent_ts') > Len(sent_ts) =>
            /\ pc = "send"
            /\ provider.state = "up"
            /\ stats'.delivered = stats.delivered + inflight.n
        /\ AttemptBegins =>
            LET taken == stats.delivered + stats.dropped
            IN  inflight'.text =
                  CombinedText([k \in 1..inflight'.n |-> UrgentText(taken + k)]) ]_vars

\* Eighteen messages were delivered, then a combined backlog of five failed:
\* the window still holds eighteen timestamps and the queue is empty.
C29_Witness ==
    /\ stats.delivered = RATE_LIMIT_MAX
    /\ stats.dropped = COMBINE_THRESHOLD
    /\ Len(sent_ts) = RATE_LIMIT_MAX
    /\ queue = <<>>
    /\ inflight = NoAttempt

---------------------------------------------------------------------------
(* A combined message and the quota                                        *)

\* C30: a combined backlog message that is delivered appends one timestamp to
\* _sent_ts, the time of the send, however many messages it holds.
C30_CombinedCountsOnce ==
    [][ (pc = "send" /\ inflight.kind = "combined"
           /\ stats'.delivered # stats.delivered)
          => /\ sent_ts' = Append(sent_ts, now)
             /\ stats'.delivered = stats.delivered + inflight.n
             /\ inflight.n >= COMBINE_THRESHOLD ]_vars

\* A combined message of five has been delivered on top of a full window:
\* twenty-three messages delivered, nineteen timestamps.
C30_Witness ==
    /\ stats.delivered = RATE_LIMIT_MAX + COMBINE_THRESHOLD
    /\ Len(sent_ts) = RATE_LIMIT_MAX + 1
    /\ sent_ts[Len(sent_ts)] = now
    /\ stats.dropped = 0
    /\ inflight = NoAttempt

---------------------------------------------------------------------------
(* The sent-timestamp window                                               *)

\* The step is the sender's _clean_old_timestamps returning into _drain_once.
CleanReturns == pc = "loop" /\ pc' = "check"

\* C31: the entries of _sent_ts never decrease from left to right, and when
\* _clean_old_timestamps returns every entry left is at most RATE_LIMIT_WINDOW
\* seconds older than the current time.
C31_WindowOrderedAndFresh ==
    /\ [](\A i, j \in 1..Len(sent_ts) : i < j => sent_ts[i] <= sent_ts[j])
    /\ [][ CleanReturns =>
             \A i \in 1..Len(sent_ts') :
                now - sent_ts'[i] <= Secs(RATE_LIMIT_WINDOW) ]_vars

\* The cleaning has just dropped expired timestamps and kept later ones, the
\* oldest of them exactly one window old.
C31_Witness ==
    /\ pc = "check"
    /\ Len(sent_ts) >= 2
    /\ Len(sent_ts) < stats.delivered
    /\ sent_ts[1] = now - Secs(RATE_LIMIT_WINDOW)
    /\ sent_ts[Len(sent_ts)] = now

---------------------------------------------------------------------------
(* Timers of an earlier epoch                                              *)

\* The time at which timer t was armed.
ArmedAt(t) == t.due - (IF t.kind = "silence" THEN SILENCE_SECONDS ELSE MAX_WAIT_SECONDS)

\* C32: a timer armed in one epoch never flushes messages of a later epoch: a
\* _flush run by a timer that was armed before the first message of the
\* buffered epoch arrived does not hand that epoch over before its own silence
\* or max-wait deadline.
C32_NoFlushByEarlierEpoch ==
    [][ \A t \in timers :
          (FlushedBy(t) /\ ArmedAt(t) < EpochFirst(groups))
             => \/ now >= EpochLast(groups) + SILENCE_SECONDS
                \/ now >= EpochFirst(groups) + MAX_WAIT_SECONDS ]_vars

---------------------------------------------------------------------------
(* No message stays in the buffer                                          *)

\* C33: with cancel() never called and timers firing when due, every message
\* send_message accepted is in time handed to the flush callback and put on
\* the sender queue, alone or inside a summary: a buffer that holds messages
\* becomes empty, and the flush that empties it appends one output for every
\* group it held to the queue.
C33_BufferedIsEnqueued ==
    /\ [][ BufferSize(groups') < BufferSize(groups) =>
             /\ groups' = <<>>
             /\ Len(queue') = Len(queue) + Len(groups)
             /\ \A k \in 1..Len(groups) :
                   GroupOutputOk(groups[k].entries, queue'[Len(queue) + k]) ]_vars
    /\ (groups # <<>>) ~> (groups = <<>>)

\* All accepted messages have left the buffer, two of them in one summary that
\* waits on the sender queue.
C33_Witness ==
    /\ stats.added = MaxPipeSends
    /\ groups = <<>>
    /\ timers = {}
    /\ \E i \in 1..Len(queue) : queue[i] \notin Alerts

---------------------------------------------------------------------------
(* Shutdown                                                                *)

\* close() has been called, the sender thread has ended and no timer thread
\* is left: nothing will be delivered any more.
ShutDown == stop_event /\ pc = "done" /\ timers = {}

\* The texts send_urgent was called with.
UrgentTexts == { UrgentText(n) : n \in 1..MaxEnq }

\* First part: no send_urgent text, queued before close(), is left on the queue.
QueueDrained == ShutDown => \A i \in 1..Len(queue) : queue[i] \notin UrgentTexts

\* Second part: no send_message text is left in the buffer, or on the queue
\* where a flush has put it.
BufferDelivered ==
    ShutDown => groups = <<>> /\ \A i \in 1..Len(queue) : queue[i] \in UrgentTexts

\* C34: when the sender thread has ended after close(), with every message sent
\* before close(), the outbound queue is empty (the final drain has attempted
\* every queued message, whatever the rate-limit state) and no message that the
\* BurstBuffer held at close() is left undelivered.
C34_ShutdownDeliversAll == QueueDrained /\ BufferDelivered

---------------------------------------------------------------------------
(* The log tailer                                                          *)

\* How many times x occurs in the sequence s.
Times(s, x) == Cardinality({ i \in 1..Len(s) : s[i] = x })

\* The lines written so far, as <<day, index>>.
Written == { <<d, i>> \in (1..MaxDays) \X (1..(3 * MaxEntries)) : i <= Len(files[d].lines) }

LineAt(l) == files[l[1]].lines[l[2]]

\* The records returned so far for entry k.
AlertsOf(k) == { j \in 1..Len(returned) : returned[j][2] = Stamp(k) }

\* C35: every ATTENTION entry written as a first line, an optional blank line
\* and a continuation line yields exactly one record, however the writer's
\* appends interleave with the calls of check_for_new_entries: once the first
\* line and the continuation line of an entry have both been read, exactly one
\* record of that entry has been returned.
C35_OneAlertPerEntry ==
    \A p, c \in Written :
        (/\ LineAt(p).role = "partial"
         /\ LineAt(c).role = "continuation"
         /\ LineAt(c).entry = LineAt(p).entry
         /\ Times(examined, p) = 1
         /\ Times(examined, c) = 1)
        => Cardinality(AlertsOf(LineAt(p).entry)) = 1

\* The monitor has gone past line l: the line lies before its position in the
\* file it has open, or in the file of a day it has left.
GonePast(l) ==
    \/ file_handle.open /\ l[1] = file_handle.path /\ l[2] <= file_handle.pos
    \/ l[1] < current_file_path

\* C36: whatever the sequence of check_for_new_entries calls, appends and date
\* changes, every line written after the monitor's first successful open is
\* examined exactly once (no line is read twice, and the monitor goes past no
\* such line without reading it), and a line that was in the file at that first
\* open is never read, so never returned.
C36_EachNewLineOnce ==
    \A l \in Written :
        /\ Times(examined, l) <= 1
        /\ (LineAt(l).fresh /\ GonePast(l)) => Times(examined, l) = 1
        /\ ~LineAt(l).fresh => Times(examined, l) = 0

\* C37: each record returned by check_for_new_entries is formatted and passed
\* to send_message exactly once: when the loop over the records of a cycle is
\* over, send_message has been called once for every record returned so far.
C37_EveryRecordSent == grid_alerts = <<>> => stats.added = Len(returned)

---------------------------------------------------------------------------
(* The two timer handles                                                   *)

\* Both handles are set.
BothSet == silence_timer # 0 /\ max_timer # 0

\* The step is a cancel() on a buffer that holds messages: both handles are
\* cancelled and cleared, _groups is left as it is.
CancelStep ==
    /\ groups' = groups
    /\ silence_timer' = 0
    /\ max_timer' = 0
    /\ timers' = CancelTimer(CancelTimer(timers, silence_timer), max_timer)

\* C38: between the buffer's critical sections the two timer handles are set
\* or unset together; when they are set _groups holds messages; and while
\* _groups holds messages both are set unless cancel() was called after the
\* last add(): add() leaves both set, and the only step that unsets them while
\* messages remain in _groups is cancel().
C38_HandlesPaired ==
    /\ []((silence_timer = 0) <=> (max_timer = 0))
    /\ [](silence_timer # 0 => groups # <<>>)
    /\ [][ AddStep => BothSet' ]_vars
    /\ [][ (BothSet /\ ~BothSet' /\ groups' # <<>>) => CancelStep ]_vars
    /\ [][ (~BothSet /\ BothSet') => AddStep ]_vars

\* Both handles are set for two buffered messages while the thread of a timer
\* that has fired, and that neither handle refers to any more, has yet to run
\* _flush.
C38_Witness ==
    /\ BothSet
    /\ BufferSize(groups) = 2
    /\ \E t \in timers : t.fired /\ t.id \notin {silence_timer, max_timer}

=============================================================================
